---- MODULE Spec2Model ----
(***************************************************************************)
(* State-machine model of the animation hooks of react-native-animation:   *)
(*   useStaggeredEntrance, useBottomSheetAnimation, useSplashAnimation     *)
(*   (React Native Animated engine), useReanimatedReady (three copies),    *)
(*   useGesture (Reanimated shared values) and the preset factories        *)
(*   createTimingAnimation / createSpringAnimation (source and lib build). *)
(*                                                                         *)
(* One behaviour follows ONE hook instance (chosen in Init) through its    *)
(* life: first render, mount effect, re-renders with new options, engine   *)
(* steps (frames and completions), timers, animation-frame callbacks and   *)
(* unmount.                                                                *)
(*                                                                         *)
(* Numbers are fixed-point with one decimal digit: Num(600) is 600,        *)
(* Dec(0, 8) is 0.8.  Milliseconds use the same representation, so that    *)
(* duration * 0.8 is exact.                                                *)
(***************************************************************************)
EXTENDS Integers, Sequences, FiniteSets, TLC

VARIABLES
    hook,      \* which hook this instance is
    phase,     \* "rendered" (first render done, effect pending), "mounted", "unmounted"
    props,     \* the destructured options of the latest render (defaults applied)
    renders,   \* number of re-renders so far
    val,       \* Animated.Value: scalar name -> current value
    drv,       \* Animated.Value._animation: scalar name -> driving animation or NoAnim
    comps,     \* the compositions built so far, in order of their trigger
    tick,      \* what the latest step did: its operation and the animations it started
    isReady,   \* useReanimatedReady: the useState flag
    returned,  \* useReanimatedReady: the value the latest render returned
    timer,     \* useReanimatedReady: the setTimeout timer
    now,       \* milliseconds elapsed while a timer is pending
    raf,       \* useReanimatedReady: index of the pending chained frame callback (0: none)
    setCalls,  \* useReanimatedReady: phase at each invocation of setIsReady(true)
    gestures,  \* useGesture: the gestures of the instance that are active, and how many began
    call       \* a call of a preset factory function: its arguments and what it passed on

vars == <<hook, phase, props, renders, val, drv, comps, tick,
          isReady, returned, timer, now, raf, setCalls, gestures, call>>

animVars  == <<val, drv, comps>>
readyVars == <<isReady, returned, timer, now, raf, setCalls>>
otherVars == <<gestures, call>>

----------------------------------------------------------------------------
(* Numbers *)

Num(n)    == n * 10
Dec(n, d) == n * 10 + d
\* fixed-point product a * b
Mul(a, b) == (a * b) \div 10

\* an optional field of an options object: {} is undefined, {x} is the value x
Default(o, d) == IF o = {} THEN d ELSE CHOOSE x \in o : TRUE

----------------------------------------------------------------------------
(* Bounds of the model *)

\* re-renders of the instance after its mount
MaxRenders == 2
\* animation frames the engine shows of one animation before it completes
MaxFrames == 1
\* milliseconds one step of the clock advances
ClockStep == 250
\* gestures of one useGesture instance that begin in a behaviour
MaxBegun == 2
\* calls of reset() of one useGesture instance in a behaviour
MaxResets == 1

----------------------------------------------------------------------------
(* The Animated engine (react-native), as the hooks use it *)

NoAnim == [kind |-> "none"]

\* new Animated.Value(v) / a running composition node
Timing(s, to, duration) ==
    [s |-> s, kind |-> "timing", to |-> to, duration |-> duration]
Spring(s, to, tension, friction) ==
    [s |-> s, kind |-> "spring", to |-> to, tension |-> tension, friction |-> friction]

\* a composition that has ended is not retained: only how it ended
Ended(status) == [groups |-> <<>>, cur |-> 0, status |-> status, begun |-> {}, done |-> {}]

\* the scalars a composition is driving now
Driving(d, c) == {s \in DOMAIN d : d[s] # NoAnim /\ d[s].comp = c}

\* An animation of composition c ended with finished: false.  Its parallel
\* group stops the other members (stopTogether) and reports finished: false
\* to the sequence, which starts nothing more.
StopComp(e, c) ==
    [e EXCEPT !.drv   = [s \in DOMAIN e.drv |->
                           IF s \in Driving(e.drv, c) THEN NoAnim ELSE e.drv[s]],
              !.comps = [e.comps EXCEPT ![c] = Ended("cancelled")]]

\* value.stopAnimation(): the value's driver, if any, ends with finished: false
StopDriver(e, s) ==
    IF e.drv[s] = NoAnim THEN e ELSE StopComp(e, e.drv[s].comp)

\* mutant: a started animation leaves the value's previous driver running
StartAnimStacks(e, c, a) ==
    [e EXCEPT !.drv     = [e.drv EXCEPT ![a.s] = [comp |-> c, frames |-> 0, anim |-> a]],
              !.started = e.started \cup {a},
              !.comps   = [e.comps EXCEPT ![c].begun = e.comps[c].begun \cup {a.s}]]

\* Animated.timing(...).start() / Animated.spring(...).start() as a member of
\* composition c: the value's previous driver is stopped, the new one installed
StartAnim(e, c, a) ==
    LET e1 == StopDriver(e, a.s)
    IN  [e1 EXCEPT !.drv     = [e1.drv EXCEPT ![a.s] = [comp |-> c, frames |-> 0, anim |-> a]],
                   !.started = e1.started \cup {a},
                   !.comps   = [e1.comps EXCEPT ![c].begun = e1.comps[c].begun \cup {a.s}]]

\* Animated.parallel(group).start(): every member is started, in array order
RECURSIVE StartGroup(_, _, _)
StartGroup(e, c, group) ==
    IF group = <<>> THEN e
    ELSE StartGroup(StartAnim(e, c, Head(group)), c, Tail(group))

\* value.setValue(v): stops the value's driver and writes the value
SetValue(e, s, v) ==
    LET e1 == StopDriver(e, s)
    IN  [e1 EXCEPT !.val = [e1.val EXCEPT ![s] = v],
                   !.written = e1.written \cup {s}]

\* Animated.sequence(groups).start(): a new composition; its first group starts now
StartComposition(e, groups) ==
    LET c  == Len(e.comps) + 1
        e1 == [e EXCEPT !.comps = Append(e.comps,
                   [groups |-> groups, cur |-> 1, status |-> "running",
                    begun |-> {}, done |-> {}])]
    IN  StartGroup(e1, c, groups[1])

\* The driver of scalar s reports finished: true.  When it was the last member
\* of its parallel group, the sequence starts the next group in the same
\* callback, or the composition is finished.
FinishAnim(e, s) ==
    LET c    == e.drv[s].comp
        e1   == [e EXCEPT !.val   = [e.val EXCEPT ![s] = e.drv[s].anim.to],
                          !.drv   = [e.drv EXCEPT ![s] = NoAnim],
                          !.comps = [e.comps EXCEPT ![c].done = e.comps[c].done \cup {s}]]
        comp == e1.comps[c]
    IN  IF Driving(e1.drv, c) # {} THEN e1
        ELSE IF comp.cur = Len(comp.groups)
             THEN [e1 EXCEPT !.comps = [e1.comps EXCEPT ![c] = Ended("finished")]]
             ELSE StartGroup([e1 EXCEPT !.comps = [e1.comps EXCEPT ![c].cur = comp.cur + 1]],
                             c, comp.groups[comp.cur + 1])

\* an intermediate value the engine shows on the way from v to the target
Mid(v, to) == (v + to) \div 2

\* the engine state an effect or callback starts from
Engine == [val |-> val, drv |-> drv, comps |-> comps, started |-> {}, written |-> {}]

----------------------------------------------------------------------------
(* React: options, dependency arrays *)

AnimatedHooks == {"entrance", "sheet", "splash"}
ReadyHooks    == {"ready500", "ready800", "ready1000"}

\* Dimensions.get('window').height
SCREEN_HEIGHT == Num(800)

\* the options objects a render may pass (each field optional: {} is absent)
EntranceNone == [delay |-> {}, duration |-> {}, translateYOffset |-> {}, enabled |-> {}]
EntranceOptions ==
    { EntranceNone,
      [EntranceNone EXCEPT !.enabled = {FALSE}],
      [EntranceNone EXCEPT !.duration = {Num(200)}, !.translateYOffset = {Num(10)}],
      [EntranceNone EXCEPT !.delay = {Num(0)}] }

SheetNone == [duration |-> {}, closeDuration |-> {}]
SheetOptions ==
    { [visible |-> v, duration |-> o.duration, closeDuration |-> o.closeDuration] :
        v \in BOOLEAN,
        o \in { SheetNone,
                [SheetNone EXCEPT !.duration = {Num(500)}, !.closeDuration = {Num(100)}],
                [SheetNone EXCEPT !.duration = {Num(0)}, !.closeDuration = {Num(-50)}] } }

SplashNone == [fadeDuration |-> {}, springTension |-> {}, springFriction |-> {},
               slideDuration |-> {}, slideOffset |-> {}, enabled |-> {}]
SplashOptions ==
    { SplashNone,
      [SplashNone EXCEPT !.enabled = {FALSE}],
      [SplashNone EXCEPT !.fadeDuration = {Num(0)}, !.springTension = {Num(40)},
                         !.springFriction = {Num(0)}, !.slideDuration = {Num(-50)}],
      [SplashNone EXCEPT !.slideOffset = {Num(20)}] }

Options(h) ==
    CASE h = "entrance" -> EntranceOptions
      [] h = "sheet"    -> SheetOptions
      [] h = "splash"   -> SplashOptions
      [] OTHER          -> {<<>>}

\* const { delay = 100, duration = 600, translateYOffset = 30, enabled = true } = options
EntranceProps(o) ==
    [delay            |-> Default(o.delay, Num(100)),
     duration         |-> Default(o.duration, Num(600)),
     translateYOffset |-> Default(o.translateYOffset, Num(30)),
     enabled          |-> Default(o.enabled, TRUE)]

\* const { duration = 300, closeDuration = 250 } = options, and the visible argument
SheetProps(o) ==
    [visible       |-> o.visible,
     duration      |-> Default(o.duration, Num(300)),
     closeDuration |-> Default(o.closeDuration, Num(250))]

\* mutant: the defaults are applied with ||, which also replaces a 0
SplashPropsFalsy(o) ==
    [fadeDuration   |-> IF o.fadeDuration = {0} THEN Num(1000)
                        ELSE Default(o.fadeDuration, Num(1000)),
     springTension  |-> IF o.springTension = {0} THEN Num(100)
                        ELSE Default(o.springTension, Num(100)),
     springFriction |-> IF o.springFriction = {0} THEN Num(8)
                        ELSE Default(o.springFriction, Num(8)),
     slideDuration  |-> IF o.slideDuration = {0} THEN Num(800)
                        ELSE Default(o.slideDuration, Num(800)),
     slideOffset    |-> Default(o.slideOffset, Num(50)),
     enabled        |-> Default(o.enabled, TRUE)]

SplashProps(o) ==
    [fadeDuration   |-> Default(o.fadeDuration, Num(1000)),
     springTension  |-> Default(o.springTension, Num(100)),
     springFriction |-> Default(o.springFriction, Num(8)),
     slideDuration  |-> Default(o.slideDuration, Num(800)),
     slideOffset    |-> Default(o.slideOffset, Num(50)),
     enabled        |-> Default(o.enabled, TRUE)]

Resolve(h, o) ==
    CASE h = "entrance" -> EntranceProps(o)
      [] h = "sheet"    -> SheetProps(o)
      [] h = "splash"   -> SplashProps(o)
      [] OTHER          -> o

\* mutant: the values are constructed at their resting positions
EntranceValuesAtRest(p) ==
    [iconScale             |-> Num(1),
     iconOpacity           |-> Num(1),
     titleOpacity          |-> Num(1),
     titleTranslateY       |-> Num(0),
     descriptionOpacity    |-> Num(1),
     descriptionTranslateY |-> Num(0),
     featuresOpacity       |-> Num(1),
     featuresTranslateY    |-> Num(0)]

\* useRef(new Animated.Value(...)).current at the first render
EntranceValues(p) ==
    [iconScale             |-> Num(0),
     iconOpacity           |-> Num(0),
     titleOpacity          |-> Num(0),
     titleTranslateY       |-> p.translateYOffset,
     descriptionOpacity    |-> Num(0),
     descriptionTranslateY |-> p.translateYOffset,
     featuresOpacity       |-> Num(0),
     featuresTranslateY    |-> p.translateYOffset]

SheetValues(p) ==
    [slideAnim |-> SCREEN_HEIGHT, backdropOpacity |-> Num(0)]

SplashValues(p) ==
    [fadeAnim |-> Num(0), scaleAnim |-> Dec(0, 8), slideAnim |-> p.slideOffset]

InitialValues(h, p) ==
    CASE h = "entrance" -> EntranceValues(p)
      [] h = "sheet"    -> SheetValues(p)
      [] h = "splash"   -> SplashValues(p)
      [] OTHER          -> <<>>

\* the dependency array of the hook's effect, compared between the previous
\* render (p) and this one (q); the Animated.Value refs in it never change
EntranceDepsChanged(p, q) ==
    <<p.enabled, p.delay, p.duration, p.translateYOffset>>
        # <<q.enabled, q.delay, q.duration, q.translateYOffset>>
SheetDepsChanged(p, q) ==
    <<p.visible, p.duration, p.closeDuration>> # <<q.visible, q.duration, q.closeDuration>>
\* mutant: the dependency array names enabled only
SplashDepsChangedEnabledOnly(p, q) == p.enabled # q.enabled

SplashDepsChanged(p, q) ==
    <<p.enabled, p.fadeDuration, p.springTension, p.springFriction,
      p.slideDuration, p.slideOffset>>
        # <<q.enabled, q.fadeDuration, q.springTension, q.springFriction,
            q.slideDuration, q.slideOffset>>
\* mutant: no dependency array, the effect runs after every render
ReadyDepsChangedAlways(p, q) == TRUE

\* useReanimatedReady: the dependency array is []
ReadyDepsChanged(p, q) == FALSE

DepsChanged(h, p, q) ==
    CASE h = "entrance" -> EntranceDepsChanged(p, q)
      [] h = "sheet"    -> SheetDepsChanged(p, q)
      [] h = "splash"   -> SplashDepsChanged(p, q)
      [] OTHER          -> ReadyDepsChanged(p, q)

----------------------------------------------------------------------------
(* The effects of the Animated hooks *)

RECURSIVE SetValues(_, _)
SetValues(e, writes) ==
    IF writes = <<>> THEN e
    ELSE SetValues(SetValue(e, Head(writes)[1], Head(writes)[2]), Tail(writes))

\* mutant: the eight animations in one Animated.parallel, no Animated.sequence
EntranceGroupsParallel(p) ==
    << << Spring("iconScale", Num(1), Num(50), Num(7)),
          Timing("iconOpacity", Num(1), Mul(p.duration, Dec(0, 8))),
          Timing("titleOpacity", Num(1), p.duration),
          Spring("titleTranslateY", Num(0), Num(50), Num(8)),
          Timing("descriptionOpacity", Num(1), p.duration),
          Spring("descriptionTranslateY", Num(0), Num(50), Num(8)),
          Timing("featuresOpacity", Num(1), p.duration),
          Spring("featuresTranslateY", Num(0), Num(50), Num(8)) >> >>

\* mutant: the title group comes before the icon group
EntranceGroupsTitleFirst(p) ==
    << << Timing("titleOpacity", Num(1), p.duration),
          Spring("titleTranslateY", Num(0), Num(50), Num(8)) >>,
       << Spring("iconScale", Num(1), Num(50), Num(7)),
          Timing("iconOpacity", Num(1), Mul(p.duration, Dec(0, 8))) >>,
       << Timing("descriptionOpacity", Num(1), p.duration),
          Spring("descriptionTranslateY", Num(0), Num(50), Num(8)) >>,
       << Timing("featuresOpacity", Num(1), p.duration),
          Spring("featuresTranslateY", Num(0), Num(50), Num(8)) >> >>

\* the Animated.sequence of four Animated.parallel groups
EntranceGroups(p) ==
    << << Spring("iconScale", Num(1), Num(50), Num(7)),
          Timing("iconOpacity", Num(1), Mul(p.duration, Dec(0, 8))) >>,
       << Timing("titleOpacity", Num(1), p.duration),
          Spring("titleTranslateY", Num(0), Num(50), Num(8)) >>,
       << Timing("descriptionOpacity", Num(1), p.duration),
          Spring("descriptionTranslateY", Num(0), Num(50), Num(8)) >>,
       << Timing("featuresOpacity", Num(1), p.duration),
          Spring("featuresTranslateY", Num(0), Num(50), Num(8)) >> >>

\* mutant: a positive delay holds the sequence back
EntranceEffectDelayed(e, p) ==
    IF ~p.enabled
    THEN SetValues(e, << <<"iconScale", Num(1)>>, <<"iconOpacity", Num(1)>>,
                         <<"titleOpacity", Num(1)>>, <<"titleTranslateY", Num(0)>>,
                         <<"descriptionOpacity", Num(1)>>, <<"descriptionTranslateY", Num(0)>>,
                         <<"featuresOpacity", Num(1)>>, <<"featuresTranslateY", Num(0)>> >>)
    ELSE IF p.delay > 0 THEN e
    ELSE StartComposition(e, EntranceGroups(p))

\* mutant: an enabled trigger rewinds the values before it animates
EntranceEffectReplays(e, p) ==
    IF ~p.enabled
    THEN SetValues(e, << <<"iconScale", Num(1)>>, <<"iconOpacity", Num(1)>>,
                         <<"titleOpacity", Num(1)>>, <<"titleTranslateY", Num(0)>>,
                         <<"descriptionOpacity", Num(1)>>, <<"descriptionTranslateY", Num(0)>>,
                         <<"featuresOpacity", Num(1)>>, <<"featuresTranslateY", Num(0)>> >>)
    ELSE StartComposition(
             SetValues(e, << <<"iconScale", Num(0)>>, <<"iconOpacity", Num(0)>>,
                             <<"titleOpacity", Num(0)>>,
                             <<"titleTranslateY", p.translateYOffset>>,
                             <<"descriptionOpacity", Num(0)>>,
                             <<"descriptionTranslateY", p.translateYOffset>>,
                             <<"featuresOpacity", Num(0)>>,
                             <<"featuresTranslateY", p.translateYOffset>> >>),
             EntranceGroups(p))

EntranceEffect(e, p) ==
    IF ~p.enabled
    THEN SetValues(e, << <<"iconScale", Num(1)>>, <<"iconOpacity", Num(1)>>,
                         <<"titleOpacity", Num(1)>>, <<"titleTranslateY", Num(0)>>,
                         <<"descriptionOpacity", Num(1)>>, <<"descriptionTranslateY", Num(0)>>,
                         <<"featuresOpacity", Num(1)>>, <<"featuresTranslateY", Num(0)>> >>)
    ELSE StartComposition(e, EntranceGroups(p))

\* mutant: the backdrop of the opening pair takes closeDuration
SheetGroupsMixed(p) ==
    IF p.visible
    THEN << << Timing("slideAnim", Num(0), p.duration),
               Timing("backdropOpacity", Num(1), p.closeDuration) >> >>
    ELSE << << Timing("slideAnim", SCREEN_HEIGHT, p.closeDuration),
               Timing("backdropOpacity", Num(0), p.closeDuration) >> >>

\* mutant: the opening pair leaves the backdrop transparent
SheetGroupsBackdropStays(p) ==
    IF p.visible
    THEN << << Timing("slideAnim", Num(0), p.duration),
               Timing("backdropOpacity", Num(0), p.duration) >> >>
    ELSE << << Timing("slideAnim", SCREEN_HEIGHT, p.closeDuration),
               Timing("backdropOpacity", Num(0), p.closeDuration) >> >>

\* the Animated.parallel pair of the branch of visible
SheetGroups(p) ==
    IF p.visible
    THEN << << Timing("slideAnim", Num(0), p.duration),
               Timing("backdropOpacity", Num(1), p.duration) >> >>
    ELSE << << Timing("slideAnim", SCREEN_HEIGHT, p.closeDuration),
               Timing("backdropOpacity", Num(0), p.closeDuration) >> >>

\* mutant: the effect rewinds both values to the branch's starting position
SheetEffectRewinds(e, p) ==
    StartComposition(
        SetValues(e, << <<"slideAnim", IF p.visible THEN SCREEN_HEIGHT ELSE Num(0)>>,
                        <<"backdropOpacity", IF p.visible THEN Num(0) ELSE Num(1)>> >>),
        SheetGroups(p))

SheetEffect(e, p) == StartComposition(e, SheetGroups(p))

\* mutant: the three animations run one after another
SplashGroupsSequential(p) ==
    << << Timing("fadeAnim", Num(1), p.fadeDuration) >>,
       << Spring("scaleAnim", Num(1), p.springTension, p.springFriction) >>,
       << Timing("slideAnim", Num(0), p.slideDuration) >> >>

SplashGroups(p) ==
    << << Timing("fadeAnim", Num(1), p.fadeDuration),
          Spring("scaleAnim", Num(1), p.springTension, p.springFriction),
          Timing("slideAnim", Num(0), p.slideDuration) >> >>

\* mutant: the enabled = false branch is missing
SplashEffectAlwaysAnimates(e, p) == StartComposition(e, SplashGroups(p))

SplashEffect(e, p) ==
    IF ~p.enabled
    THEN SetValues(e, << <<"fadeAnim", Num(1)>>, <<"scaleAnim", Num(1)>>,
                         <<"slideAnim", Num(0)>> >>)
    ELSE StartComposition(e, SplashGroups(p))

Effect(h, e, p) ==
    CASE h = "entrance" -> EntranceEffect(e, p)
      [] h = "sheet"    -> SheetEffect(e, p)
      [] h = "splash"   -> SplashEffect(e, p)
      [] OTHER          -> e

----------------------------------------------------------------------------
(* useReanimatedReady: the three copies *)

ReadyDelay500   == 500
ReadyFrames500  == 3
ReadyDelay800   == 800
ReadyFrames800  == 4
ReadyDelay1000  == 1000
ReadyFrames1000 == 5

ReadyDelay(h) ==
    CASE h = "ready500" -> ReadyDelay500
      [] h = "ready800" -> ReadyDelay800
      [] OTHER          -> ReadyDelay1000

\* mutant: the 500 ms copy nests one requestAnimationFrame less
ReadyFramesOneLess(h) ==
    CASE h = "ready500" -> ReadyFrames500 - 1
      [] h = "ready800" -> ReadyFrames800
      [] OTHER          -> ReadyFrames1000

ReadyFrames(h) ==
    CASE h = "ready500" -> ReadyFrames500
      [] h = "ready800" -> ReadyFrames800
      [] OTHER          -> ReadyFrames1000

NoTimer == [state |-> "none", due |-> 0]

\* mutant: the timer is cleared as soon as it is set
ReadyEffectClearsAtOnce(h) == [state |-> "cleared", due |-> ReadyDelay(h)]

\* const timer = setTimeout(..., delay)
ReadyEffect(h) == [state |-> "armed", due |-> ReadyDelay(h)]

\* mutant: the cleanup does not clear the timer
ReadyCleanupKeepsTimer(t) == t

\* return () => { clearTimeout(timer) }
ReadyCleanup(t) == IF t.state = "armed" THEN [t EXCEPT !.state = "cleared"] ELSE t

----------------------------------------------------------------------------
(* The life of one hook instance *)

Step(op, e) == [op |-> op, started |-> e.started]

\* no gesture of useGesture is active; no factory function has been called
\* (history kept for the properties: the latest event of each active gesture,
\* the sum of the final translations of the pans that ended, and whether two
\* pans were ever active together)
NoGestures ==
    [active |-> {}, begun |-> 0, resets |-> 0,
     last |-> <<>>, total |-> [x |-> 0, y |-> 0], overlapped |-> FALSE]
NoCall == [fn |-> "none"]

\* the first render: the options are destructured and the values constructed
InitHook(h, o) ==
    /\ hook = h
    /\ phase = "rendered"
    /\ props = Resolve(h, o)
    /\ renders = 0
    /\ val = InitialValues(h, Resolve(h, o))
    /\ drv = [s \in DOMAIN InitialValues(h, Resolve(h, o)) |-> NoAnim]
    /\ comps = <<>>
    /\ tick = [op |-> "render", started |-> {}]
    /\ isReady = FALSE
    /\ returned = FALSE
    /\ timer = NoTimer
    /\ now = 0
    /\ raf = <<>>
    /\ setCalls = <<>>
    /\ gestures = NoGestures
    /\ call = NoCall

Init == \E h \in AnimatedHooks \cup ReadyHooks : \E o \in Options(h) : InitHook(h, o)

\* the effect of the first render runs
MountEffect ==
    /\ phase = "rendered"
    /\ phase' = "mounted"
    /\ LET e == Effect(hook, Engine, props)
       IN  /\ val' = e.val
           /\ drv' = e.drv
           /\ comps' = e.comps
           /\ tick' = Step("mount", e)
    /\ timer' = IF hook \in ReadyHooks THEN ReadyEffect(hook) ELSE timer
    /\ UNCHANGED <<hook, props, renders, isReady, returned, now, raf, setCalls>>
    /\ UNCHANGED otherVars

\* a later render with options o: the effect runs again when a dependency changed
Rerender(o) ==
    /\ phase = "mounted"
    /\ renders < MaxRenders \/ returned # isReady
    /\ renders' = IF renders < MaxRenders THEN renders + 1 ELSE renders
    /\ props' = Resolve(hook, o)
    /\ returned' = isReady
    /\ LET changed == DepsChanged(hook, props, props')
           e       == IF changed THEN Effect(hook, Engine, props') ELSE Engine
       IN  /\ val' = e.val
           /\ drv' = e.drv
           /\ comps' = e.comps
           /\ tick' = Step("render", e)
           /\ timer' = IF changed /\ hook \in ReadyHooks THEN ReadyEffect(hook) ELSE timer
           /\ now' = IF changed /\ hook \in ReadyHooks THEN 0 ELSE now
    /\ UNCHANGED <<hook, phase, isReady, raf, setCalls>>
    /\ UNCHANGED otherVars

\* the component unmounts: the effect's cleanup runs, where it has one
Unmount ==
    /\ phase = "mounted"
    /\ phase' = "unmounted"
    /\ timer' = IF hook \in ReadyHooks THEN ReadyCleanup(timer) ELSE timer
    /\ tick' = Step("unmount", Engine)
    /\ UNCHANGED <<hook, props, renders, val, drv, comps, isReady, returned, now, raf, setCalls>>
    /\ UNCHANGED otherVars

\* the engine shows a frame of the animation driving s
Frame(s) ==
    /\ drv[s] # NoAnim
    /\ drv[s].frames < MaxFrames
    /\ Mid(val[s], drv[s].anim.to) # val[s]
    /\ val' = [val EXCEPT ![s] = Mid(val[s], drv[s].anim.to)]
    /\ drv' = [drv EXCEPT ![s].frames = drv[s].frames + 1]
    /\ tick' = Step("engine", Engine)
    /\ UNCHANGED <<hook, phase, props, renders, comps>>
    /\ UNCHANGED readyVars
    /\ UNCHANGED otherVars

\* the engine completes the animation driving s
Complete(s) ==
    /\ drv[s] # NoAnim
    /\ LET e == FinishAnim(Engine, s)
       IN  /\ val' = e.val
           /\ drv' = e.drv
           /\ comps' = e.comps
           /\ tick' = Step("engine", e)
    /\ UNCHANGED <<hook, phase, props, renders>>
    /\ UNCHANGED readyVars
    /\ UNCHANGED otherVars

\* time passes while the timer is pending
Advance ==
    /\ timer.state = "armed"
    /\ now < timer.due
    /\ now' = now + ClockStep
    /\ tick' = Step("clock", Engine)
    /\ UNCHANGED <<hook, phase, props, renders, isReady, returned, timer, raf, setCalls>>
    /\ UNCHANGED animVars
    /\ UNCHANGED otherVars

\* the setTimeout callback: the first requestAnimationFrame
TimerFire ==
    /\ timer.state = "armed"
    /\ now >= timer.due
    /\ timer' = [timer EXCEPT !.state = "fired"]
    /\ raf' = Append(raf, 1)
    /\ tick' = Step("timer", Engine)
    /\ UNCHANGED <<hook, phase, props, renders, isReady, returned, now, setCalls>>
    /\ UNCHANGED animVars
    /\ UNCHANGED otherVars

\* the pending frame callback runs: it requests the next one, or, the
\* innermost, calls setIsReady(true) (React drops a state update of an
\* unmounted component)
FrameCallback ==
    /\ raf # <<>>
    /\ IF Head(raf) < ReadyFrames(hook)
       THEN /\ raf' = Append(Tail(raf), Head(raf) + 1)
            /\ UNCHANGED <<isReady, setCalls>>
       ELSE /\ raf' = Tail(raf)
            /\ setCalls' = Append(setCalls, phase)
            /\ isReady' = IF phase = "mounted" THEN TRUE ELSE isReady
    /\ tick' = Step("raf", Engine)
    /\ UNCHANGED <<hook, phase, props, renders, returned, timer, now>>
    /\ UNCHANGED animVars
    /\ UNCHANGED otherVars

Next ==
    \/ MountEffect
    \/ \E o \in Options(hook) : Rerender(o)
    \/ Unmount
    \/ \E s \in DOMAIN val : Frame(s)
    \/ \E s \in DOMAIN val : Complete(s)
    \/ Advance
    \/ TimerFire
    \/ FrameCallback

Spec == Init /\ [][Next]_vars

----------------------------------------------------------------------------
(* Overlapping triggers *)

Running  == {c \in 1..Len(comps) : comps[c].status = "running"}
Drivers  == {s \in DOMAIN drv : drv[s] # NoAnim}

\* C1: at most one composition of the instance is in flight, and every
\* animation that is running belongs to the composition of the latest trigger
\* (an earlier composition neither keeps running nor starts anything once a
\* new one has started).  The staggered entrance violates it.
C1_CancelAndReplace ==
    /\ Cardinality(Running) <= 1
    /\ \A s \in Drivers : drv[s].comp = Len(comps)

----------------------------------------------------------------------------
(* The staggered entrance sequence *)

IconGroup        == {"iconScale", "iconOpacity"}
TitleGroup       == {"titleOpacity", "titleTranslateY"}
DescriptionGroup == {"descriptionOpacity", "descriptionTranslateY"}
FeaturesGroup    == {"featuresOpacity", "featuresTranslateY"}
GroupOrder       == <<IconGroup, TitleGroup, DescriptionGroup, FeaturesGroup>>

----------------------------------------------------------------------------
(* enabled = false *)

\* C3: right after the mount effect with enabled = false every scalar holds
\* its terminal value, and no animation has been created or started.
C3_DisabledMountJumps ==
    (tick.op = "mount" /\ hook \in {"entrance", "splash"} /\ ~props.enabled) =>
        /\ hook = "entrance" =>
              val = [iconScale             |-> Num(1),
                     iconOpacity           |-> Num(1),
                     titleOpacity          |-> Num(1),
                     titleTranslateY       |-> Num(0),
                     descriptionOpacity    |-> Num(1),
                     descriptionTranslateY |-> Num(0),
                     featuresOpacity       |-> Num(1),
                     featuresTranslateY    |-> Num(0)]
        /\ hook = "splash" =>
              val = [fadeAnim |-> Num(1), scaleAnim |-> Num(1), slideAnim |-> Num(0)]
        /\ tick.started = {}
        /\ comps = <<>>
        /\ Drivers = {}

C3_Witness ==
    /\ tick.op = "mount"
    /\ hook = "entrance"
    /\ ~props.enabled
    /\ val["titleTranslateY"] = Num(0)

----------------------------------------------------------------------------
(* useReanimatedReady: teardown *)

\* C4: setIsReady(true) is never invoked after the component unmounted.
\* The code violates it: the frame callbacks are not cancelled.
C4_NoFlipAfterTeardown ==
    \A i \in 1..Len(setCalls) : setCalls[i] # "unmounted"

\* C5: an unmount before the timer fired clears the timer: an unmounted
\* component has no armed timer, and with a cleared timer no frame callback is
\* pending, setIsReady was never called and the flag is false.
C5_UnmountClearsTimer ==
    hook \in ReadyHooks =>
        /\ phase = "unmounted" => timer.state \in {"cleared", "fired"}
        /\ timer.state = "cleared" =>
              /\ phase = "unmounted"
              /\ raf = <<>>
              /\ setCalls = <<>>
              /\ ~isReady

C5_Witness ==
    /\ hook \in ReadyHooks
    /\ timer.state = "cleared"
    /\ now > 0

----------------------------------------------------------------------------
(* useReanimatedReady: the flag *)

\* the number of chained frame callbacks of each copy
ChainedFrames ==
    [ready500 |-> 3, ready800 |-> 4, ready1000 |-> 5]

\* C6: the flag and the returned value are false while the timer has not
\* fired or a chained frame callback is still pending; the callbacks are
\* numbered 1..N with N = 3, 4, 5 for the 500, 800, 1000 ms copy, the timer of
\* each copy is due after its own delay, and the flag becomes true only in the
\* step that runs callback N, the last of the chain.
C6_FalseUntilLastFrame ==
    /\ [](hook \in ReadyHooks =>
            /\ (timer.state # "fired" \/ raf # <<>>) => (~isReady /\ ~returned)
            /\ \A i \in 1..Len(raf) : raf[i] \in 1..ChainedFrames[hook]
            /\ timer.state # "none" =>
                  timer.due = [ready500 |-> 500, ready800 |-> 800,
                               ready1000 |-> 1000][hook]
            /\ timer.state = "fired" => now >= timer.due)
    /\ [][(~isReady /\ isReady') =>
            (raf = <<ChainedFrames[hook]>> /\ raf' = <<>>)]_vars

C6_Witness ==
    /\ hook = "ready800"
    /\ isReady
    /\ returned

\* C7: setIsReady(true) is invoked at most once, the timer is armed only by
\* the mount effect (no re-render arms it), and once the flag is true it stays
\* true.
C7_ReadyIsTerminal ==
    /\ [](Len(setCalls) <= 1)
    /\ [][(timer'.state = "armed" /\ timer' # timer) => phase = "rendered"]_vars
    /\ [][isReady => isReady']_vars

\* the flag is true and the component was rendered again afterwards
C7_Witness ==
    /\ hook \in ReadyHooks
    /\ isReady
    /\ returned
    /\ renders = 2

----------------------------------------------------------------------------
(* useReanimatedReady alone, with the scheduling React and the host give:    *)
(* a pending effect runs, time passes, a due timer fires and a requested     *)
(* animation frame is delivered.                                             *)

InitReady == \E h \in ReadyHooks : InitHook(h, <<>>)

NextReady ==
    \/ MountEffect
    \/ Rerender(<<>>)
    \/ Unmount
    \/ Advance
    \/ TimerFire
    \/ FrameCallback

SpecReady ==
    /\ InitReady
    /\ [][NextReady]_vars
    /\ WF_vars(MountEffect)
    /\ WF_vars(Advance)
    /\ WF_vars(TimerFire)
    /\ WF_vars(FrameCallback)

\* C8: while the flag is false, it eventually becomes true unless the
\* component unmounts.
C8_EventuallyReady ==
    (~isReady) ~> (isReady \/ phase = "unmounted")

C8_Witness ==
    /\ hook = "ready1000"
    /\ isReady
    /\ phase = "mounted"
    /\ now >= 1000

----------------------------------------------------------------------------
(* useBottomSheetAnimation *)

\* C9: a render that changes duration or closeDuration and leaves visible
\* unchanged starts no animation.  The code violates it: both are
\* dependencies of the effect.
C9_DurationChangeStartsNothing ==
    [][(hook = "sheet" /\ phase = "mounted" /\ props' # props
          /\ props'.visible = props.visible)
        => tick'.started = {}]_vars

\* the pair the hook is documented to start for a value of visible
SheetPair(visible, duration, closeDuration) ==
    IF visible
    THEN { [s |-> "slideAnim", kind |-> "timing", to |-> Num(0), duration |-> duration],
           [s |-> "backdropOpacity", kind |-> "timing", to |-> Num(1), duration |-> duration] }
    ELSE { [s |-> "slideAnim", kind |-> "timing", to |-> SCREEN_HEIGHT,
            duration |-> closeDuration],
           [s |-> "backdropOpacity", kind |-> "timing", to |-> Num(0),
            duration |-> closeDuration] }

\* C10: the mount effect and every render that changes visible start
\* exactly one composition, the pair of the new value of visible, with
\* duration when opening and closeDuration when closing; with no options the
\* durations are 300 and 250; and whatever drives the two scalars belongs to
\* the pair of one value of visible with one duration.
C10_OnePairPerVisibleChange ==
    /\ [][(hook = "sheet"
             /\ \/ phase = "rendered" /\ phase' = "mounted"
                \/ props'.visible # props.visible)
          => /\ tick'.started =
                   SheetPair(props'.visible, props'.duration, props'.closeDuration)
             /\ Len(comps') = Len(comps) + 1]_vars
    /\ [](hook = "sheet" =>
            /\ \A v \in BOOLEAN :
                  (/\ tick.op = "mount"
                   /\ props = SheetProps([visible |-> v, duration |-> {},
                                          closeDuration |-> {}]))
                      => tick.started = SheetPair(v, Num(300), Num(250))
            /\ Drivers # {} =>
                  \E v \in BOOLEAN, d \in {drv[x].anim.duration : x \in Drivers} :
                     \A x \in Drivers : drv[x].anim \in SheetPair(v, d, d))

\* visible changed from false to true while the closing pair was running
C10_Witness ==
    /\ hook = "sheet"
    /\ tick.op = "render"
    /\ props.visible
    /\ tick.started = SheetPair(TRUE, Num(500), Num(100))
    /\ Len(comps) = 2

----------------------------------------------------------------------------
(* Continuity of the bottom sheet *)

\* C11: a trigger of the bottom sheet (its mount, or a render that toggles
\* visible, also while the previous pair is in flight) writes neither
\* slideAnim nor backdropOpacity: the pair it starts takes each value up
\* from where it is, as its fresh driver (no frame shown yet).
C11_ToggleKeepsPosition ==
    [][(hook = "sheet" /\ tick'.op \in {"mount", "render"})
         => /\ val' = val
            /\ \A a \in tick'.started :
                 /\ drv'[a.s].anim = a
                 /\ drv'[a.s].frames = 0]_vars

\* a toggle that caught the previous pair in flight, slideAnim part-way
C11_Witness ==
    /\ hook = "sheet"
    /\ tick.op = "render"
    /\ tick.started # {}
    /\ Len(comps) >= 2
    /\ comps[Len(comps) - 1].status = "cancelled"
    /\ val["slideAnim"] > Num(0)
    /\ val["slideAnim"] < SCREEN_HEIGHT
    /\ drv["slideAnim"] # NoAnim
    /\ drv["slideAnim"].frames = 0

----------------------------------------------------------------------------
(* One driver per scalar *)

\* the members of the current group of composition c that have not completed
Pending(c) ==
    {a \in {comps[c].groups[comps[c].cur][i] :
              i \in 1..Len(comps[c].groups[comps[c].cur])} : a.s \notin comps[c].done}

----------------------------------------------------------------------------
(* One composition per trigger *)

\* Every option of the three Animated hooks is a dependency of the effect, so
\* a render changes a dependency exactly when it changes the options.
Trigger == tick'.op = "mount" \/ (tick'.op = "render" /\ props' # props)
NoTrigger == tick'.op = "render" /\ props' = props

\* the step built one composition and started it: its first group
StartsOne ==
    /\ Len(comps') = Len(comps) + 1
    /\ comps'[Len(comps')].status = "running"
    /\ comps'[Len(comps')].cur = 1
    /\ tick'.started =
         {comps'[Len(comps')].groups[1][i] : i \in 1..Len(comps'[Len(comps')].groups[1])}
    /\ \A a \in tick'.started : drv'[a.s].comp = Len(comps')

\* the step built and started nothing
StartsNone == Len(comps') = Len(comps) /\ tick'.started = {}

OneCompositionPerTrigger ==
    hook \in AnimatedHooks =>
        /\ Trigger => StartsOne
        /\ NoTrigger => (StartsNone /\ animVars' = animVars)

\* C13 (as stated): every trigger (the mount, or a render in which a
\* dependency changed) builds and starts exactly one composition; a render
\* in which no dependency changed starts none.
C13_OneCompositionPerTrigger == [][OneCompositionPerTrigger]_vars

\* the hook animates on this trigger: the bottom sheet always, the entrance
\* and the splash when enabled
Animates(h, p) == h = "sheet" \/ p.enabled

OneCompositionPerEnabledTrigger ==
    hook \in AnimatedHooks =>
        /\ (Trigger /\ Animates(hook, props')) => StartsOne
        /\ (Trigger /\ ~Animates(hook, props')) => (StartsNone /\ Drivers' = {})
        /\ NoTrigger => (StartsNone /\ animVars' = animVars)

\* C13 (amended): every trigger with enabled true (every trigger of the
\* bottom sheet) builds and starts exactly one composition; a trigger with
\* enabled false builds none, it sets the values; a render in which no
\* dependency changed starts none.
C13_OneCompositionPerEnabledTrigger == [][OneCompositionPerEnabledTrigger]_vars

\* a render that changed an option of the enabled splash and started the
\* second composition of the instance
C13_Witness ==
    /\ hook = "splash"
    /\ tick.op = "render"
    /\ props.enabled
    /\ Len(comps) = 2
    /\ comps[2].status = "running"
    /\ tick.started = {comps[2].groups[1][i] : i \in 1..3}

----------------------------------------------------------------------------
(* The delay option of useStaggeredEntrance *)

\* the animations of the entrance as a function of duration alone
IssuedIcon(duration) ==
    << Spring("iconScale", Num(1), Num(50), Num(7)),
       Timing("iconOpacity", Num(1), Mul(duration, Dec(0, 8))) >>
IssuedText(opacity, translateY, duration) ==
    << Timing(opacity, Num(1), duration), Spring(translateY, Num(0), Num(50), Num(8)) >>
IssuedEntrance(duration) ==
    << IssuedIcon(duration),
       IssuedText("titleOpacity", "titleTranslateY", duration),
       IssuedText("descriptionOpacity", "descriptionTranslateY", duration),
       IssuedText("featuresOpacity", "featuresTranslateY", duration) >>

DelayDoesNotGate ==
    (hook = "entrance" /\ Trigger /\ props'.enabled) =>
        /\ tick'.started = {IssuedIcon(props'.duration)[i] : i \in 1..2}
        /\ Len(comps') = Len(comps) + 1
        /\ comps'[Len(comps')].groups = IssuedEntrance(props'.duration)

C15_WaitsForDelay ==
    (hook = "entrance" /\ tick.op \in {"mount", "render"} /\ props.delay > 0)
        => tick.started = {}

----------------------------------------------------------------------------
(* The parallel group of useSplashAnimation *)

SplashIssued(p) ==
    { Timing("fadeAnim", Num(1), p.fadeDuration),
      Spring("scaleAnim", Num(1), p.springTension, p.springFriction),
      Timing("slideAnim", Num(0), p.slideDuration) }

SplashStartsTogether ==
    (hook = "splash" /\ Trigger /\ props'.enabled) =>
        /\ tick'.started = SplashIssued(props')
        /\ Len(comps') = Len(comps) + 1
        /\ Len(comps'[Len(comps')].groups) = 1
        /\ comps'[Len(comps')].begun = {"fadeAnim", "scaleAnim", "slideAnim"}
        /\ comps'[Len(comps')].done = {}
        /\ \A a \in SplashIssued(props') :
             drv'[a.s] = [comp |-> Len(comps'), frames |-> 0, anim |-> a]
        /\ tick'.op = "mount" =>
             /\ val'["fadeAnim"] = Num(0)
             /\ val'["scaleAnim"] = Dec(0, 8)
             /\ val'["slideAnim"] = props'.slideOffset

\* C16: an enabled trigger of useSplashAnimation starts the fade timing (to 1,
\* fadeDuration), the scale spring (to 1, springTension, springFriction) and
\* the slide timing (to 0, slideDuration) in the trigger's own step, as the
\* three members of the single parallel group of one composition, none
\* having completed before another starts; at the mount they set out from
\* 0, 0.8 and slideOffset.
C16_SplashStartsTogether == [][SplashStartsTogether]_vars

\* the mount of the enabled splash with the default slideOffset of 50
C16_Witness ==
    /\ hook = "splash"
    /\ tick.op = "mount"
    /\ props.enabled
    /\ props.slideOffset = Num(50)
    /\ val["slideAnim"] = Num(50)
    /\ val["scaleAnim"] = Dec(0, 8)
    /\ Cardinality(tick.started) = 3
    /\ Drivers = {"fadeAnim", "scaleAnim", "slideAnim"}

----------------------------------------------------------------------------
(* Initial values *)

\* the options of a call that passes none, after destructuring
EntranceDefaults ==
    [delay |-> Num(100), duration |-> Num(600), translateYOffset |-> Num(30), enabled |-> TRUE]
SplashDefaults ==
    [fadeDuration |-> Num(1000), springTension |-> Num(100), springFriction |-> Num(8),
     slideDuration |-> Num(800), slideOffset |-> Num(50), enabled |-> TRUE]
SheetDefaults(visible) ==
    [visible |-> visible, duration |-> Num(300), closeDuration |-> Num(250)]

\* C17: after the first render with all-default options and before the
\* effect or any engine step, the handles read: entrance 0, 0, 0, 30, 0, 30,
\* 0, 30; splash 0, 0.8, 50; bottom sheet SCREEN_HEIGHT, 0; no animation
\* drives any of them and no composition exists.
C17_DocumentedInitialValues ==
    phase = "rendered" =>
        /\ (hook = "entrance" /\ props = EntranceDefaults) =>
               val = [iconScale |-> Num(0), iconOpacity |-> Num(0),
                      titleOpacity |-> Num(0), titleTranslateY |-> Num(30),
                      descriptionOpacity |-> Num(0), descriptionTranslateY |-> Num(30),
                      featuresOpacity |-> Num(0), featuresTranslateY |-> Num(30)]
        /\ (hook = "splash" /\ props = SplashDefaults) =>
               val = [fadeAnim |-> Num(0), scaleAnim |-> Dec(0, 8), slideAnim |-> Num(50)]
        /\ (hook = "sheet" /\ props \in {SheetDefaults(v) : v \in BOOLEAN}) =>
               val = [slideAnim |-> SCREEN_HEIGHT, backdropOpacity |-> Num(0)]
        /\ hook \in AnimatedHooks => (Drivers = {} /\ comps = <<>>)

\* the first render of useStaggeredEntrance() has returned its handles
C17_Witness ==
    /\ phase = "rendered"
    /\ hook = "entrance"
    /\ props = EntranceDefaults
    /\ val["iconOpacity"] = Num(0)
    /\ val["featuresTranslateY"] = Num(30)
    /\ tick.op = "render"

----------------------------------------------------------------------------
(* Two runs of the entrance sequence *)

\* the resting position of the entrance
EntranceRest ==
    [iconScale |-> Num(1), iconOpacity |-> Num(1),
     titleOpacity |-> Num(1), titleTranslateY |-> Num(0),
     descriptionOpacity |-> Num(1), descriptionTranslateY |-> Num(0),
     featuresOpacity |-> Num(1), featuresTranslateY |-> Num(0)]

\* group k of composition c has completed
GroupCompleted(c, k) == GroupOrder[k] \subseteq comps[c].done

\* Every run of the entrance behaves alike: a group completes (its last
\* member completes) only when every earlier group has completed and no
\* member of a later group has; the composition finishes with the features
\* group; and a run that was not re-triggered finishes at EntranceRest.
EntranceRunsAlike ==
    hook = "entrance" =>
        \A c \in Running :
            /\ \A k \in 1..4 :
                 (~GroupCompleted(c, k) /\ GroupOrder[k] \subseteq comps'[c].done) =>
                     /\ \A j \in 1..4 : j < k => GroupCompleted(c, j)
                     /\ \A j \in 1..4 : j > k => GroupOrder[j] \cap comps'[c].done = {}
            /\ comps'[c].status = "finished" =>
                 /\ \A j \in 1..3 : GroupCompleted(c, j)
                 /\ Cardinality(FeaturesGroup \ comps[c].done) = 1
                 /\ \A s \in FeaturesGroup \ comps[c].done :
                      val'[s] = EntranceRest[s] /\ drv'[s] = NoAnim
                 /\ Len(comps) = 1 => (val' = EntranceRest /\ Drivers' = {})

\* C19: any two enabled runs of the entrance sequence with the same options,
\* each to completion without a re-trigger, agree: each ends with iconScale
\* 1, every opacity 1 and every translateY 0, and in each the groups
\* complete in the order icon, title, description, features.
C19_EntranceRunsAlike == [][EntranceRunsAlike]_vars

\* a run that was mounted enabled and finished without a re-trigger
C19_Witness ==
    /\ hook = "entrance"
    /\ props.enabled
    /\ Len(comps) = 1
    /\ comps[1].status = "finished"
    /\ val = EntranceRest
    /\ Drivers = {}
    /\ tick.op = "engine"

----------------------------------------------------------------------------
(* The preset table and the two factory functions *)

\* An AnimationTimingConfig is {duration, easing?, useNativeDriver?}, an
\* AnimationSpringConfig {tension, friction, useNativeDriver?}; an optional
\* field is {} when the object does not have it, {x} when it has the value x.
\* The config handed to Animated.timing / Animated.spring is written the same
\* way: a key the engine reads as undefined is {}.

EasingOutQuad == "Easing.out(Easing.quad)"
EasingLinear  == "Easing.linear"

AnimationPresets ==
    [fast         |-> [duration |-> Num(200), easing |-> {EasingOutQuad},
                       useNativeDriver |-> {TRUE}],
     normal       |-> [duration |-> Num(300), easing |-> {EasingOutQuad},
                       useNativeDriver |-> {TRUE}],
     slow         |-> [duration |-> Num(500), easing |-> {EasingOutQuad},
                       useNativeDriver |-> {TRUE}],
     spring       |-> [tension |-> Num(100), friction |-> Num(8),
                       useNativeDriver |-> {TRUE}],
     springGentle |-> [tension |-> Num(50), friction |-> Num(7),
                       useNativeDriver |-> {TRUE}]]

\* mutant: the default preset of createTimingAnimation is fast
createTimingAnimationFast(value, toValue, preset) ==
    LET p == Default(preset, AnimationPresets.fast)
    IN  [kind |-> "timing", value |-> value, toValue |-> toValue,
         duration |-> p.duration, easing |-> p.easing,
         useNativeDriver |-> p.useNativeDriver]

\* source: Animated.timing(value, { toValue, ...preset }), preset = normal
createTimingAnimation(value, toValue, preset) ==
    LET p == Default(preset, AnimationPresets.normal)
    IN  [kind |-> "timing", value |-> value, toValue |-> toValue,
         duration |-> p.duration, easing |-> p.easing,
         useNativeDriver |-> p.useNativeDriver]

\* source: Animated.spring(value, { toValue, ...preset }), preset = spring
createSpringAnimation(value, toValue, preset) ==
    LET p == Default(preset, AnimationPresets.spring)
    IN  [kind |-> "spring", value |-> value, toValue |-> toValue,
         tension |-> p.tension, friction |-> p.friction,
         useNativeDriver |-> p.useNativeDriver]

\* lib build: { toValue, duration: preset.duration, easing: preset.easing,
\*              useNativeDriver: preset.useNativeDriver ?? true }
libCreateTimingAnimation(value, toValue, preset) ==
    LET p == Default(preset, AnimationPresets.normal)
    IN  [kind |-> "timing", value |-> value, toValue |-> toValue,
         duration |-> p.duration, easing |-> p.easing,
         useNativeDriver |-> {Default(p.useNativeDriver, TRUE)}]

\* lib build: { toValue, tension: preset.tension, friction: preset.friction,
\*              useNativeDriver: preset.useNativeDriver ?? true }
libCreateSpringAnimation(value, toValue, preset) ==
    LET p == Default(preset, AnimationPresets.spring)
    IN  [kind |-> "spring", value |-> value, toValue |-> toValue,
         tension |-> p.tension, friction |-> p.friction,
         useNativeDriver |-> {Default(p.useNativeDriver, TRUE)}]

\* the arguments of the calls that are examined: no preset, the presets of
\* the table, and presets of the caller's own
TimingPresetArgs ==
    { {}, {AnimationPresets.fast}, {AnimationPresets.normal}, {AnimationPresets.slow},
      {[duration |-> Num(0), easing |-> {}, useNativeDriver |-> {}]},
      {[duration |-> Num(1000), easing |-> {EasingLinear}, useNativeDriver |-> {FALSE}]} }
SpringPresetArgs ==
    { {}, {AnimationPresets.spring}, {AnimationPresets.springGentle},
      {[tension |-> Num(0), friction |-> Num(0), useNativeDriver |-> {}]},
      {[tension |-> Num(40), friction |-> Num(3), useNativeDriver |-> {FALSE}]} }
ToValueArgs == {Num(0), Num(1), Dec(0, 5), Num(-100)}
ValueArgs   == {"fadeAnim", "slideAnim"}
Builds      == {"src", "lib"}

\* the variables of a mounted hook, for a behaviour that follows none
hookVars == <<hook, phase, props, renders, tick>>

InitIdle(h) ==
    /\ hook = h
    /\ phase = "mounted"
    /\ props = <<>>
    /\ renders = 0
    /\ tick = [op |-> "none", started |-> {}]
    /\ isReady = FALSE
    /\ returned = FALSE
    /\ timer = NoTimer
    /\ now = 0
    /\ raf = <<>>
    /\ setCalls = <<>>

\* a call of one of the factory functions is about to be made
InitPresets ==
    /\ InitIdle("presets")
    /\ val = <<>>
    /\ drv = <<>>
    /\ comps = <<>>
    /\ gestures = NoGestures
    /\ \E b \in Builds : \E v \in ValueArgs : \E t \in ToValueArgs :
         \/ \E p \in TimingPresetArgs :
              call = [fn |-> "createTimingAnimation", build |-> b, value |-> v,
                      toValue |-> t, preset |-> p, passed |-> {}]
         \/ \E p \in SpringPresetArgs :
              call = [fn |-> "createSpringAnimation", build |-> b, value |-> v,
                      toValue |-> t, preset |-> p, passed |-> {}]

\* createTimingAnimation(value, toValue, preset?) runs
CreateTiming ==
    /\ call.fn = "createTimingAnimation"
    /\ call.passed = {}
    /\ call' = [call EXCEPT !.passed =
                  { IF call.build = "src"
                    THEN createTimingAnimation(call.value, call.toValue, call.preset)
                    ELSE libCreateTimingAnimation(call.value, call.toValue, call.preset) }]
    /\ UNCHANGED <<hookVars, animVars, readyVars, gestures>>

\* createSpringAnimation(value, toValue, preset?) runs
CreateSpring ==
    /\ call.fn = "createSpringAnimation"
    /\ call.passed = {}
    /\ call' = [call EXCEPT !.passed =
                  { IF call.build = "src"
                    THEN createSpringAnimation(call.value, call.toValue, call.preset)
                    ELSE libCreateSpringAnimation(call.value, call.toValue, call.preset) }]
    /\ UNCHANGED <<hookVars, animVars, readyVars, gestures>>

NextPresets == CreateTiming \/ CreateSpring

SpecPresets == InitPresets /\ [][NextPresets]_vars

\* what the call passed to the engine
Passed == CHOOSE c \in call.passed : TRUE

\* every optional field the preset has is passed on as it is
PassesOn(p, c, field) == p[field] # {} => c[field] = p[field]

----------------------------------------------------------------------------
(* useGesture *)

\* useSharedValue(...) at the first render
GestureValues ==
    [translateX |-> Num(0), translateY |-> Num(0), scale |-> Num(1),
     savedTranslateX |-> Num(0), savedTranslateY |-> Num(0), savedScale |-> Num(1)]

\* withSpring(to), assigned to the shared value s
withSpring(s, to) == [s |-> s, kind |-> "withSpring", to |-> to]

\* sharedValue.value = animation: the animation replaces the one the shared
\* value has and runs on its own
AssignAnimation(e, a) == StartComposition(e, << <<a>> >>)

\* The gesture objects made from the instance: createPanGesture called
\* twice, createPinchGesture once (each may be attached to a detector of its
\* own, or composed with Gesture.Simultaneous), and the two gestures that
\* touch no shared value.
Pan1   == [kind |-> "pan", id |-> 1]
Pan2   == [kind |-> "pan", id |-> 2]
Pinch1 == [kind |-> "pinch", id |-> 1]
Gestures == {Pan1, Pan2, Pinch1}
Discrete == {[kind |-> "tap", id |-> 1], [kind |-> "longPress", id |-> 1]}
NoGesture == [kind |-> "none", id |-> 0]

\* the events of the recognizer
PanEvents ==
    { [translationX |-> Num(30), translationY |-> Num(0)],
      [translationX |-> Num(-20), translationY |-> Num(10)] }
PinchEvents == { [scale |-> Dec(0, 5)], [scale |-> Num(2)] }
Events(g) == IF g.kind = "pan" THEN PanEvents ELSE PinchEvents
\* a gesture that has begun and not moved
NoEvent(g) ==
    IF g.kind = "pan" THEN [translationX |-> Num(0), translationY |-> Num(0)]
    ELSE [scale |-> Num(1)]
\* the function f with f[k] set to v
Put(f, k, v) == [j \in DOMAIN f \cup {k} |-> IF j = k THEN v ELSE f[j]]

\* what a step of the gesture hook did: the callback or operation, the
\* gesture it belongs to, the animations it started, the values it assigned
GestureStep(op, g, e) ==
    [op |-> op, gesture |-> g, started |-> e.started, written |-> e.written]

\* .onStart(() => { saved... = ... })
OnStart(e, g) ==
    IF g.kind = "pan"
    THEN SetValues(e, << <<"savedTranslateX", e.val["translateX"]>>,
                         <<"savedTranslateY", e.val["translateY"]>> >>)
    ELSE SetValue(e, "savedScale", e.val["scale"])

\* mutant: onUpdate adds the event's translation to the current position
OnUpdateAccumulates(e, g, event) ==
    IF g.kind = "pan"
    THEN SetValues(e, << <<"translateX", e.val["translateX"] + event.translationX>>,
                         <<"translateY", e.val["translateY"] + event.translationY>> >>)
    ELSE SetValue(e, "scale", Mul(e.val["scale"], event.scale))

\* .onUpdate((event) => { ... })
OnUpdate(e, g, event) ==
    IF g.kind = "pan"
    THEN SetValues(e, << <<"translateX", e.val["savedTranslateX"] + event.translationX>>,
                         <<"translateY", e.val["savedTranslateY"] + event.translationY>> >>)
    ELSE SetValue(e, "scale", Mul(e.val["savedScale"], event.scale))

\* mutant: reset() leaves the scale accumulator as it is
ResetGestureKeepsSavedScale(e) ==
    SetValues(
        AssignAnimation(
            AssignAnimation(
                AssignAnimation(e, withSpring("translateX", Num(0))),
                withSpring("translateY", Num(0))),
            withSpring("scale", Num(1))),
        << <<"savedTranslateX", Num(0)>>, <<"savedTranslateY", Num(0)>> >>)

\* const reset = useCallback(() => { ... })
ResetGesture(e) ==
    SetValues(
        AssignAnimation(
            AssignAnimation(
                AssignAnimation(e, withSpring("translateX", Num(0))),
                withSpring("translateY", Num(0))),
            withSpring("scale", Num(1))),
        << <<"savedTranslateX", Num(0)>>, <<"savedTranslateY", Num(0)>>,
           <<"savedScale", Num(1)>> >>)

InitGesture ==
    /\ InitIdle("gesture")
    /\ val = GestureValues
    /\ drv = [s \in DOMAIN GestureValues |-> NoAnim]
    /\ comps = <<>>
    /\ gestures = NoGestures
    /\ call = NoCall

Apply(e) ==
    /\ val' = e.val
    /\ drv' = e.drv
    /\ comps' = e.comps

\* the recognizer activates gesture g: its onStart callback runs
GestureStart(g) ==
    /\ g \notin gestures.active
    /\ gestures.begun < MaxBegun
    /\ gestures' = [gestures EXCEPT
                       !.active = gestures.active \cup {g},
                       !.begun = gestures.begun + 1,
                       !.last = Put(gestures.last, g, NoEvent(g)),
                       !.overlapped = gestures.overlapped
                                        \/ (g.kind = "pan" /\ \E h \in gestures.active :
                                                                  h.kind = "pan")]
    /\ LET e == OnStart(Engine, g)
       IN  Apply(e) /\ tick' = GestureStep("onStart", g, e)
    /\ UNCHANGED <<hook, phase, props, renders, call>>
    /\ UNCHANGED readyVars

\* the active gesture g moves: its onUpdate callback runs
GestureUpdate(g, event) ==
    /\ g \in gestures.active
    /\ LET e == OnUpdate(Engine, g, event)
       IN  Apply(e) /\ tick' = GestureStep("onUpdate", g, e)
    /\ gestures' = [gestures EXCEPT !.last = Put(gestures.last, g, event)]
    /\ UNCHANGED <<hook, phase, props, renders, call>>
    /\ UNCHANGED readyVars

\* the active gesture g ends: its onEnd callback runs
GestureEnd(g) ==
    /\ g \in gestures.active
    /\ gestures' = [gestures EXCEPT
                       !.active = gestures.active \ {g},
                       !.last = [h \in DOMAIN gestures.last \ {g} |-> gestures.last[h]],
                       !.total = IF g.kind = "pan"
                                 THEN [x |-> gestures.total.x + gestures.last[g].translationX,
                                       y |-> gestures.total.y + gestures.last[g].translationY]
                                 ELSE gestures.total]
    /\ tick' = GestureStep("onEnd", g, Engine)
    /\ UNCHANGED <<hook, phase, props, renders, call>>
    /\ UNCHANGED animVars
    /\ UNCHANGED readyVars

\* a tap or a long press is recognized: its onStart callback runs
DiscreteGesture(g) ==
    /\ tick' = GestureStep("onStart", g, Engine)
    /\ UNCHANGED <<hook, phase, props, renders, gestures, call>>
    /\ UNCHANGED animVars
    /\ UNCHANGED readyVars

\* the component calls reset()
Reset ==
    /\ gestures.resets < MaxResets
    /\ gestures' = [gestures EXCEPT !.resets = gestures.resets + 1]
    /\ LET e == ResetGesture(Engine)
       IN  Apply(e) /\ tick' = GestureStep("reset", NoGesture, e)
    /\ UNCHANGED <<hook, phase, props, renders, call>>
    /\ UNCHANGED readyVars

NextGesture ==
    \/ \E g \in Gestures : GestureStart(g)
    \/ \E g \in Gestures : \E event \in Events(g) : GestureUpdate(g, event)
    \/ \E g \in Gestures : GestureEnd(g)
    \/ \E g \in Discrete : DiscreteGesture(g)
    \/ Reset
    \/ \E s \in DOMAIN val : Frame(s)
    \/ \E s \in DOMAIN val : Complete(s)

SpecGesture == InitGesture /\ [][NextGesture]_vars

Accumulators == {"savedTranslateX", "savedTranslateY", "savedScale"}
\* the kind of gesture whose callbacks are written to use the accumulator
Owner(s) == IF s = "savedScale" THEN "pinch" ELSE "pan"

\* the step assigned to the shared value s
Assigned(s) ==
    IF tick'.op = "engine" THEN val'[s] # val[s] ELSE s \in tick'.written

AccumulatorsOwned ==
    hook = "gesture" =>
        \A s \in Accumulators :
            Assigned(s) =>
                /\ tick'.op \in {"onStart", "onUpdate", "onEnd"}
                /\ tick'.gesture.kind = Owner(s)
                /\ \A g \in gestures.active : g.kind = Owner(s) => g = tick'.gesture

\* C20: a saved accumulator is assigned only in a start/update/end callback
\* of a gesture of the kind that owns it, and never while another gesture
\* that uses the accumulator is active: not by reset(), not by a second
\* gesture made from the same instance.
C20_AccumulatorsOwned == [][AccumulatorsOwned]_vars

----------------------------------------------------------------------------
(* Options are not validated *)

\* numeric option values, among them zero, a negative one and a fraction
NumericInputs == {Num(0), Num(-50), Dec(0, 5), Num(200)}

Members(group) == {group[i] : i \in 1..Len(group)}

\* the hooks, called with the numeric option n for every numeric option they
\* have, destructure n and build their animations with n
PassesThrough(n) ==
    /\ LET p == EntranceProps([EntranceNone EXCEPT !.duration = {n},
                                                   !.translateYOffset = {n}, !.delay = {n}])
       IN  /\ p = [delay |-> n, duration |-> n, translateYOffset |-> n, enabled |-> TRUE]
           /\ EntranceGroups(p) = IssuedEntrance(n)
           /\ EntranceValues(p)["titleTranslateY"] = n
    /\ \A v \in BOOLEAN :
         LET p == SheetProps([visible |-> v, duration |-> {n}, closeDuration |-> {n}])
         IN  /\ p = [visible |-> v, duration |-> n, closeDuration |-> n]
             /\ Len(SheetGroups(p)) = 1
             /\ Members(SheetGroups(p)[1]) = SheetPair(v, n, n)
    /\ LET p == SplashProps([SplashNone EXCEPT !.fadeDuration = {n}, !.springTension = {n},
                                               !.springFriction = {n}, !.slideDuration = {n},
                                               !.slideOffset = {n}])
       IN  /\ p = [fadeDuration |-> n, springTension |-> n, springFriction |-> n,
                   slideDuration |-> n, slideOffset |-> n, enabled |-> TRUE]
           /\ Len(SplashGroups(p)) = 1
           /\ Members(SplashGroups(p)[1]) =
                { Timing("fadeAnim", Num(1), n), Spring("scaleAnim", Num(1), n, n),
                  Timing("slideAnim", Num(0), n) }

\* C21: the three hooks validate no option.  Whatever numeric value an
\* option has (zero, negative, a fraction), it is destructured as given, no
\* default takes its place, and the animations are built with exactly that
\* value (the icon opacity with duration * 0.8); and what a trigger of a
\* mounted hook starts carries the values of the render's options, zero or
\* negative ones included.
C21_OptionsPassThrough ==
    /\ \A n \in NumericInputs : PassesThrough(n)
    /\ (tick.op \in {"mount", "render"} /\ tick.started # {}) =>
          /\ hook = "entrance" => tick.started = Members(IssuedIcon(props.duration))
          /\ hook = "sheet" =>
                tick.started = SheetPair(props.visible, props.duration, props.closeDuration)
          /\ hook = "splash" =>
                tick.started =
                    { Timing("fadeAnim", Num(1), props.fadeDuration),
                      Spring("scaleAnim", Num(1), props.springTension, props.springFriction),
                      Timing("slideAnim", Num(0), props.slideDuration) }

\* the splash was rendered with fadeDuration 0, springFriction 0 and
\* slideDuration -50, and its trigger started the animations with them
C21_Witness ==
    /\ hook = "splash"
    /\ tick.op \in {"mount", "render"}
    /\ props.fadeDuration = Num(0)
    /\ props.springFriction = Num(0)
    /\ props.slideDuration = Num(-50)
    /\ Timing("fadeAnim", Num(1), Num(0)) \in tick.started
    /\ Spring("scaleAnim", Num(1), Num(40), Num(0)) \in tick.started
    /\ Timing("slideAnim", Num(0), Num(-50)) \in tick.started

----------------------------------------------------------------------------
(* The bottom sheet comes to rest *)

\* One instance of useBottomSheetAnimation, with an engine that eventually
\* completes every animation that stays the driver of its value.
InitSheet == \E o \in SheetOptions : InitHook("sheet", o)

NextSheet ==
    \/ MountEffect
    \/ \E o \in SheetOptions : Rerender(o)
    \/ Unmount
    \/ \E s \in DOMAIN val : Frame(s)
    \/ \E s \in DOMAIN val : Complete(s)

SpecSheet ==
    /\ InitSheet
    /\ [][NextSheet]_vars
    /\ WF_vars(MountEffect)
    /\ WF_vars(Complete("slideAnim"))
    /\ WF_vars(Complete("backdropOpacity"))

\* the pair the sheet rests at for a value of visible
SheetRest(visible) ==
    IF visible THEN [slideAnim |-> Num(0), backdropOpacity |-> Num(1)]
    ELSE [slideAnim |-> SCREEN_HEIGHT, backdropOpacity |-> Num(0)]

\* the effect has run and nothing drives the two values
SheetAtRest == phase # "rendered" /\ Drivers = {}

\* C23: whenever the sheet is at rest, the two values are the pair of the
\* latest visible (0 and 1 when true, SCREEN_HEIGHT and 0 when false), never
\* a mixed pair; and once visible has stopped changing the sheet comes to
\* rest at that pair and stays there.
C23_SheetComesToRest ==
    /\ [](SheetAtRest => val = SheetRest(props.visible))
    /\ <>[](SheetAtRest /\ val = SheetRest(props.visible))

\* after two renders, one of which cancelled a pair in flight, the sheet
\* rests open
C23_Witness ==
    /\ hook = "sheet"
    /\ renders = MaxRenders
    /\ \E c \in 1..Len(comps) : comps[c].status = "cancelled"
    /\ props.visible
    /\ SheetAtRest
    /\ val = SheetRest(TRUE)

----------------------------------------------------------------------------
(* No way back to the initial values *)

SplashRest == [fadeAnim |-> Num(1), scaleAnim |-> Num(1), slideAnim |-> Num(0)]

\* the terminal value of each scalar of the entrance and of the splash
Terminal(h) == IF h = "entrance" THEN EntranceRest ELSE SplashRest

Distance(a, b) == IF a >= b THEN a - b ELSE b - a

\* Every step leaves each scalar where it is or takes it nearer to its
\* terminal value, every animation started aims at the terminal value, and a
\* render that keeps the hook enabled writes no value at all.
OnlyForward ==
    hook \in {"entrance", "splash"} =>
        /\ \A s \in DOMAIN val :
             /\ Distance(val'[s], Terminal(hook)[s]) <= Distance(val[s], Terminal(hook)[s])
             /\ val[s] = Terminal(hook)[s] => val'[s] = Terminal(hook)[s]
        /\ \A a \in tick'.started : a.to = Terminal(hook)[a.s]
        /\ (tick'.op = "render" /\ props'.enabled) => val' = val

\* C24: useStaggeredEntrance and useSplashAnimation never take a scalar back
\* towards its initial value: whatever option changes, the effect only sets
\* or animates scalars towards their terminal values.  A changed slideOffset
\* or translateYOffset is therefore not applied as a new start position, and
\* a scalar that has reached its terminal value (as all have once the
\* enabled = false branch ran) stays there when enabled becomes true.
C24_OnlyForward == [][OnlyForward]_vars

\* the entrance was mounted disabled and later rendered enabled: its first
\* composition was started with every scalar at its terminal value
C24_Witness ==
    /\ hook = "entrance"
    /\ tick.op = "render"
    /\ props.enabled
    /\ Len(comps) = 1
    /\ tick.started # {}
    /\ val = EntranceRest

----------------------------------------------------------------------------
(* Pan and pinch arithmetic *)

\* the values other than those in S are the same after the step
Keeps(S) == \A s \in DOMAIN val \ S : val'[s] = val[s]

PanStep(g) ==
    /\ tick'.op = "onStart" =>
          /\ val'["savedTranslateX"] = val["translateX"]
          /\ val'["savedTranslateY"] = val["translateY"]
          /\ tick'.written = {"savedTranslateX", "savedTranslateY"}
          /\ Keeps({"savedTranslateX", "savedTranslateY"})
    /\ tick'.op = "onUpdate" =>
          /\ val'["translateX"] = val'["savedTranslateX"] + gestures'.last[g].translationX
          /\ val'["translateY"] = val'["savedTranslateY"] + gestures'.last[g].translationY
          /\ tick'.written = {"translateX", "translateY"}
          /\ Keeps({"translateX", "translateY"})

PinchStep(g) ==
    /\ tick'.op = "onStart" =>
          /\ val'["savedScale"] = val["scale"]
          /\ tick'.written = {"savedScale"}
          /\ Keeps({"savedScale"})
    /\ tick'.op = "onUpdate" =>
          /\ val'["scale"] = Mul(val'["savedScale"], gestures'.last[g].scale)
          /\ tick'.written = {"scale"}
          /\ Keeps({"scale"})

\* with no reset and no two pans at once, the position is the sum of the
\* final translations of the pans that ended, plus the translation of the
\* pan under way
SumOfTranslations ==
    (gestures'.resets = 0 /\ ~gestures'.overlapped) =>
        LET moving == {g \in gestures'.active : g.kind = "pan"}
            dx == IF moving = {} THEN 0
                  ELSE gestures'.last[CHOOSE g \in moving : TRUE].translationX
            dy == IF moving = {} THEN 0
                  ELSE gestures'.last[CHOOSE g \in moving : TRUE].translationY
        IN  /\ val'["translateX"] = gestures'.total.x + dx
            /\ val'["translateY"] = gestures'.total.y + dy

PanPinchArithmetic ==
    (hook = "gesture" /\ tick'.op \in {"onStart", "onUpdate", "onEnd"}) =>
        /\ tick'.gesture.kind = "pan" => PanStep(tick'.gesture)
        /\ tick'.gesture.kind = "pinch" => PinchStep(tick'.gesture)
        /\ tick'.op = "onEnd" => (val' = val /\ drv' = drv /\ tick'.written = {})
        /\ tick'.started = {}
        /\ SumOfTranslations

\* C25: a pan's onStart copies translateX/Y into savedTranslateX/Y, after
\* each of its onUpdate calls translateX/Y = savedTranslateX/Y + the event's
\* translationX/Y, and onEnd changes no scalar; so after complete pans in
\* sequence, with no reset, translateX/Y are the sums of the pans' final
\* translations.  A pinch keeps scale = savedScale * event.scale.  A pan
\* writes neither scale nor savedScale, a pinch no translate scalar.
C25_PanPinchArithmetic == [][PanPinchArithmetic]_vars

\* two pans, one after the other, have ended 30 and -20 to the right, 0 and
\* 10 down
C25_Witness ==
    /\ hook = "gesture"
    /\ tick.op = "onEnd"
    /\ gestures.begun = 2
    /\ gestures.active = {}
    /\ gestures.resets = 0
    /\ ~gestures.overlapped
    /\ gestures.total = [x |-> Num(10), y |-> Num(10)]
    /\ val["translateX"] = Num(10)
    /\ val["translateY"] = Num(10)
    /\ val["scale"] = Num(1)

----------------------------------------------------------------------------
(* reset() *)

\* the gesture hook with an engine that completes the springs it is given
SpecGestureFair ==
    /\ InitGesture
    /\ [][NextGesture]_vars
    /\ WF_vars(Complete("translateX"))
    /\ WF_vars(Complete("translateY"))
    /\ WF_vars(Complete("scale"))

Springs ==
    { withSpring("translateX", Num(0)), withSpring("translateY", Num(0)),
      withSpring("scale", Num(1)) }

\* reset() writes the three accumulators and starts the three springs in one
\* step, and moves no value itself
ResetInOneStep ==
    (hook = "gesture" /\ tick'.op = "reset") =>
        /\ \A s \in Accumulators : val'[s] = GestureValues[s]
        /\ tick'.written = Accumulators
        /\ tick'.started = Springs
        /\ \A a \in Springs : drv'[a.s] # NoAnim /\ drv'[a.s].anim = a
        /\ \A a \in Springs : val'[a.s] = val[a.s]

GestureEvent == tick.op \in {"onStart", "onUpdate", "onEnd"}

GestureAtRest ==
    /\ val = GestureValues
    /\ \A s \in DOMAIN drv : drv[s] = NoAnim

\* C26: reset() sets savedTranslateX, savedTranslateY, savedScale to 0, 0, 1
\* and starts springs of translateX and translateY to 0 and scale to 1, all in
\* one step; when no gesture event follows and the engine completes the
\* springs, the values come to 0, 0, 1 with the accumulators at 0, 0, 1,
\* whatever the state reset() was called in.
C26_ResetComesToRest ==
    /\ [][ResetInOneStep]_vars
    /\ (hook = "gesture" /\ tick.op = "reset") ~> (GestureAtRest \/ GestureEvent)

\* reset() was called after a pan had ended 30 to the right and a pinch had
\* been made, and the springs have completed
C26_Witness ==
    /\ hook = "gesture"
    /\ gestures.resets = 1
    /\ gestures.total.x = Num(30)
    /\ gestures.active = {}
    /\ tick.op = "engine"
    /\ GestureAtRest

----------------------------------------------------------------------------
(* The lib build of the factory functions against the source *)

\* what the source and the lib build pass to the engine for the call's arguments
SrcPasses ==
    IF call.fn = "createTimingAnimation"
    THEN createTimingAnimation(call.value, call.toValue, call.preset)
    ELSE createSpringAnimation(call.value, call.toValue, call.preset)
LibPasses ==
    IF call.fn = "createTimingAnimation"
    THEN libCreateTimingAnimation(call.value, call.toValue, call.preset)
    ELSE libCreateSpringAnimation(call.value, call.toValue, call.preset)

\* C30: for every value, toValue and preset, a preset without useNativeDriver
\* or easing included, createTimingAnimation and createSpringAnimation of the
\* lib build pass the engine the same configuration as those of the source.
C30_BuildsAgree ==
    (call.fn # "none" /\ call.passed # {}) =>
        /\ Passed = SrcPasses
        /\ Passed = LibPasses

----------------------------------------------------------------------------
(* The preset configurations of AnimationUtils and AnimationConfigService *)

\* enum AnimationPreset
AnimationPreset ==
    { "fadeIn", "fadeOut", "slideInUp", "slideInDown", "slideInLeft",
      "slideInRight", "scaleIn", "scaleOut", "bounce", "shake" }

ANIMATION_CONSTANTS ==
    [DURATION |-> [INSTANT |-> Num(0), FAST |-> Num(200), NORMAL |-> Num(300),
                   SLOW |-> Num(500), VERY_SLOW |-> Num(1000)],
     SPRING   |-> [DAMPING |-> Num(10), STIFFNESS |-> Num(100), MASS |-> Num(1)]]

\* configs[preset] of a Record: the entry, or undefined (no element)
Lookup(configs, preset) ==
    IF preset \in DOMAIN configs THEN {configs[preset]} ELSE {}

\* AnimationUtils.getTimingConfig(preset)
AnimationUtils_getTimingConfig(preset) ==
    LET configs ==
          [fadeIn       |-> [duration |-> ANIMATION_CONSTANTS.DURATION.NORMAL],
           fadeOut      |-> [duration |-> ANIMATION_CONSTANTS.DURATION.NORMAL],
           slideInUp    |-> [duration |-> ANIMATION_CONSTANTS.DURATION.NORMAL],
           slideInDown  |-> [duration |-> ANIMATION_CONSTANTS.DURATION.NORMAL],
           slideInLeft  |-> [duration |-> ANIMATION_CONSTANTS.DURATION.NORMAL],
           slideInRight |-> [duration |-> ANIMATION_CONSTANTS.DURATION.NORMAL],
           scaleIn      |-> [duration |-> ANIMATION_CONSTANTS.DURATION.FAST],
           scaleOut     |-> [duration |-> ANIMATION_CONSTANTS.DURATION.FAST],
           bounce       |-> [duration |-> ANIMATION_CONSTANTS.DURATION.SLOW],
           shake        |-> [duration |-> ANIMATION_CONSTANTS.DURATION.FAST]]
    IN  Lookup(configs, preset)

\* AnimationUtils.getSpringConfig(preset)
AnimationUtils_getSpringConfig(preset) ==
    LET default == [damping   |-> ANIMATION_CONSTANTS.SPRING.DAMPING,
                    stiffness |-> ANIMATION_CONSTANTS.SPRING.STIFFNESS]
        configs ==
          [fadeIn       |-> default,
           fadeOut      |-> default,
           slideInUp    |-> default,
           slideInDown  |-> default,
           slideInLeft  |-> default,
           slideInRight |-> default,
           scaleIn      |-> [damping |-> Num(15), stiffness |-> Num(150)],
           scaleOut     |-> [damping |-> Num(15), stiffness |-> Num(150)],
           bounce       |-> [damping |-> Num(5), stiffness |-> Num(120)],
           shake        |-> [damping |-> Num(8), stiffness |-> Num(200)]]
    IN  Lookup(configs, preset)

\* mutant: the service's table gives shake the normal duration
AnimationConfigService_getTimingConfigShakeNormal(preset) ==
    IF preset = "shake" THEN {[duration |-> ANIMATION_CONSTANTS.DURATION.NORMAL]}
    ELSE AnimationUtils_getTimingConfig(preset)

\* AnimationConfigService.getTimingConfig(preset)
AnimationConfigService_getTimingConfig(preset) ==
    LET configs ==
          [fadeIn       |-> [duration |-> ANIMATION_CONSTANTS.DURATION.NORMAL],
           fadeOut      |-> [duration |-> ANIMATION_CONSTANTS.DURATION.NORMAL],
           slideInUp    |-> [duration |-> ANIMATION_CONSTANTS.DURATION.NORMAL],
           slideInDown  |-> [duration |-> ANIMATION_CONSTANTS.DURATION.NORMAL],
           slideInLeft  |-> [duration |-> ANIMATION_CONSTANTS.DURATION.NORMAL],
           slideInRight |-> [duration |-> ANIMATION_CONSTANTS.DURATION.NORMAL],
           scaleIn      |-> [duration |-> ANIMATION_CONSTANTS.DURATION.FAST],
           scaleOut     |-> [duration |-> ANIMATION_CONSTANTS.DURATION.FAST],
           bounce       |-> [duration |-> ANIMATION_CONSTANTS.DURATION.SLOW],
           shake        |-> [duration |-> ANIMATION_CONSTANTS.DURATION.FAST]]
    IN  Lookup(configs, preset)

\* AnimationConfigService.getSpringConfig(preset)
AnimationConfigService_getSpringConfig(preset) ==
    LET default == [damping   |-> ANIMATION_CONSTANTS.SPRING.DAMPING,
                    stiffness |-> ANIMATION_CONSTANTS.SPRING.STIFFNESS]
        configs ==
          [fadeIn       |-> default,
           fadeOut      |-> default,
           slideInUp    |-> default,
           slideInDown  |-> default,
           slideInLeft  |-> default,
           slideInRight |-> default,
           scaleIn      |-> [damping |-> Num(15), stiffness |-> Num(150)],
           scaleOut     |-> [damping |-> Num(15), stiffness |-> Num(150)],
           bounce       |-> [damping |-> Num(5), stiffness |-> Num(120)],
           shake        |-> [damping |-> Num(8), stiffness |-> Num(200)]]
    IN  Lookup(configs, preset)

\* A caller asks the four functions for the configuration of one preset, in
\* any order; call.returned holds what each function asked so far returned.
InitConfig ==
    /\ InitIdle("config")
    /\ val = <<>>
    /\ drv = <<>>
    /\ comps = <<>>
    /\ gestures = NoGestures
    /\ \E p \in AnimationPreset :
         call = [fn |-> "getConfig", preset |-> p, returned |-> <<>>]

Return(f, result) ==
    /\ f \notin DOMAIN call.returned
    /\ call' = [call EXCEPT !.returned = Put(call.returned, f, result)]
    /\ UNCHANGED <<hookVars, animVars, readyVars, gestures>>

UtilsGetTimingConfig ==
    Return("AnimationUtils.getTimingConfig", AnimationUtils_getTimingConfig(call.preset))
UtilsGetSpringConfig ==
    Return("AnimationUtils.getSpringConfig", AnimationUtils_getSpringConfig(call.preset))
ServiceGetTimingConfig ==
    Return("AnimationConfigService.getTimingConfig",
           AnimationConfigService_getTimingConfig(call.preset))
ServiceGetSpringConfig ==
    Return("AnimationConfigService.getSpringConfig",
           AnimationConfigService_getSpringConfig(call.preset))

NextConfig ==
    \/ UtilsGetTimingConfig
    \/ UtilsGetSpringConfig
    \/ ServiceGetTimingConfig
    \/ ServiceGetSpringConfig

SpecConfig == InitConfig /\ [][NextConfig]_vars

FadeAndSlide ==
    {"fadeIn", "fadeOut", "slideInUp", "slideInDown", "slideInLeft", "slideInRight"}

\* the duration stated for the preset
StatedDuration(p) ==
    IF p \in FadeAndSlide THEN Num(300)
    ELSE IF p \in {"scaleIn", "scaleOut", "shake"} THEN Num(200)
    ELSE Num(500)

Returned(f) == call.returned[f]
Asked(f) == f \in DOMAIN call.returned

\* C29: for every member of AnimationPreset, getTimingConfig and
\* getSpringConfig of AnimationConfigService return what those of
\* AnimationUtils return; each of the four returns a configuration for every
\* member; the duration is 300 for the fade and slide presets, 200 for
\* scaleIn, scaleOut and shake, 500 for bounce; damping and stiffness are
\* positive.
C29_ConfigsAgree ==
    hook = "config" =>
        /\ \A f \in DOMAIN call.returned : Returned(f) # {}
        /\ \A f \in {"AnimationUtils.getTimingConfig",
                     "AnimationConfigService.getTimingConfig"} :
              Asked(f) => \A c \in Returned(f) :
                              /\ c.duration = StatedDuration(call.preset)
                              /\ c.duration \in {Num(200), Num(300), Num(500)}
        /\ \A f \in {"AnimationUtils.getSpringConfig",
                     "AnimationConfigService.getSpringConfig"} :
              Asked(f) => \A c \in Returned(f) : c.damping > 0 /\ c.stiffness > 0
        /\ (Asked("AnimationUtils.getTimingConfig")
              /\ Asked("AnimationConfigService.getTimingConfig")) =>
                 Returned("AnimationConfigService.getTimingConfig")
                     = Returned("AnimationUtils.getTimingConfig")
        /\ (Asked("AnimationUtils.getSpringConfig")
              /\ Asked("AnimationConfigService.getSpringConfig")) =>
                 Returned("AnimationConfigService.getSpringConfig")
                     = Returned("AnimationUtils.getSpringConfig")

\* all four functions have been asked for the shake preset
C29_Witness ==
    /\ hook = "config"
    /\ call.preset = "shake"
    /\ DOMAIN call.returned =
          {"AnimationUtils.getTimingConfig", "AnimationUtils.getSpringConfig",
           "AnimationConfigService.getTimingConfig",
           "AnimationConfigService.getSpringConfig"}
    /\ Returned("AnimationConfigService.getTimingConfig") = {[duration |-> Num(200)]}
    /\ Returned("AnimationConfigService.getSpringConfig")
          = {[damping |-> Num(8), stiffness |-> Num(200)]}

----------------------------------------------------------------------------
(* useAnimation *)

\* A configuration object of the caller, and an options object given to
\* withTiming / withSpring, is a record of the keys it has; config?, distance
\* and repeatCount are {} when the argument is not passed, {x} when it is x.

\* the transitions called in one behaviour
MaxCalls == 2
\* the repetitions of a repeating animation that are counted
MaxReps == 2

\* useSharedValue(...) at the first render
AnimationValues ==
    [opacity |-> Num(1), translateY |-> Num(0), translateX |-> Num(0),
     scale |-> Num(1), rotate |-> Num(0)]

\* obj.key, undefined (no element) when the object has no such key
Field(obj, key) == IF key \in DOMAIN obj THEN {obj[key]} ELSE {}

\* x || d for a number or undefined x: 0 and undefined are falsy
OrElse(x, d) == IF x = {} \/ x = {0} THEN d ELSE CHOOSE y \in x : TRUE

withTiming(toValue, config) ==
    [kind |-> "withTiming", to |-> toValue, config |-> config]
withSpringConfig(toValue, config) ==
    [kind |-> "withSpring", to |-> toValue, config |-> config]
withSequence(animations) ==
    [kind |-> "withSequence", animations |-> animations]
withRepeat(animation, numberOfReps, reverse) ==
    [kind |-> "withRepeat", animation |-> animation,
     numberOfReps |-> numberOfReps, reverse |-> reverse]

\* A leg is one timing or spring run by the engine: its target, the animation
\* it belongs to, and the value it restarts from ({} when it continues from
\* the value the scalar has).
Leg(a) == [to |-> a.to, by |-> a, from |-> {}]
Restarting(legs, start) == <<[legs[1] EXCEPT !.from = {start}]>> \o Tail(legs)

RECURSIVE Times(_, _)
Times(legs, n) == IF n = 0 THEN <<>> ELSE legs \o Times(legs, n - 1)

\* the legs of a finite animation assigned to a scalar whose value is start:
\* a sequence runs its members one after the other; a reversing repetition
\* of a timing runs it to its target and back to start in turn; a
\* repetition that does not reverse restarts from start every time
RECURSIVE Legs(_, _)
Legs(a, start) ==
    IF a.kind \in {"withTiming", "withSpring"} THEN <<Leg(a)>>
    ELSE IF a.kind = "withSequence"
    THEN LET RECURSIVE Run(_, _)
             Run(as, from) ==
                 IF as = <<>> THEN <<>>
                 ELSE LET h == Legs(Head(as), from)
                      IN  h \o Run(Tail(as), h[Len(h)].to)
         IN  Run(a.animations, start)
    ELSE LET pass == Legs(a.animation, start)
         IN  IF a.reverse
             THEN [i \in 1..a.numberOfReps |->
                      IF i % 2 = 1 THEN pass[1]
                      ELSE [pass[1] EXCEPT !.to = start]]
             ELSE pass \o Times(Restarting(pass, start), a.numberOfReps - 1)

\* numberOfReps <= 0 repeats without end
Endless(a) == a.kind = "withRepeat" /\ a.numberOfReps <= 0

\* what the engine runs for animation a: the legs ahead, and for an endless
\* repetition the legs of every further round
Program(a, start) ==
    IF Endless(a)
    THEN LET pass == Legs(a.animation, start)
         IN  [legs  |-> pass,
              cycle |-> IF a.reverse
                        THEN <<[pass[1] EXCEPT !.to = start], pass[1]>>
                        ELSE Restarting(pass, start)]
    ELSE [legs |-> Legs(a, start), cycle |-> <<>>]

\* scalar.value = animation, in the nth call, made by transition fn
Assign(e, s, a, fn, n) ==
    LET p == Program(a, e.val[s])
    IN  [e EXCEPT !.drv = [e.drv EXCEPT ![s] =
                      [kind |-> "reanimated", fn |-> fn, call |-> n, assigned |-> a,
                       legs |-> p.legs, cycle |-> p.cycle, reps |-> 0, frames |-> 0]],
                  !.started = e.started \cup {[s |-> s, animation |-> a]}]

\* scalar.value = v: the value is written and the running animation dropped
Write1(e, s, v) ==
    [e EXCEPT !.val = [e.val EXCEPT ![s] = v],
              !.drv = [e.drv EXCEPT ![s] = NoAnim],
              !.written = e.written \cup {s}]

EaseDefault == "Easing.ease"
EaseOutCubic == "Easing.out(Easing.cubic)"

\* config || AnimationUtils.getTimingConfig(preset)
TimingOf(config, preset) == Default(config, Default(AnimationUtils_getTimingConfig(preset), <<>>))
\* config || AnimationUtils.getSpringConfig(preset)
SpringOf(config, preset) == Default(config, Default(AnimationUtils_getSpringConfig(preset), <<>>))

\* { duration: timing.duration || ANIMATION_CONSTANTS.DURATION.NORMAL, easing }
TimingOptions(timing, easing) ==
    [duration |-> OrElse(Field(timing, "duration"), ANIMATION_CONSTANTS.DURATION.NORMAL),
     easing   |-> easing]
\* { damping: spring.damping || DAMPING, stiffness: spring.stiffness || STIFFNESS }
SpringOptions(spring) ==
    [damping   |-> OrElse(Field(spring, "damping"), ANIMATION_CONSTANTS.SPRING.DAMPING),
     stiffness |-> OrElse(Field(spring, "stiffness"), ANIMATION_CONSTANTS.SPRING.STIFFNESS)]

fadeIn(e, n, config) ==
    Assign(e, "opacity",
           withTiming(Num(1), TimingOptions(TimingOf(config, "fadeIn"), EaseDefault)),
           "fadeIn", n)

fadeOut(e, n, config) ==
    Assign(e, "opacity",
           withTiming(Num(0), TimingOptions(TimingOf(config, "fadeOut"), EaseDefault)),
           "fadeOut", n)

\* the four slideIn functions: the scalar is put at the offset, then a timing
\* to 0 is assigned
SlideIn(e, n, fn, s, offset, config) ==
    Assign(Write1(e, s, offset), s,
           withTiming(Num(0), TimingOptions(TimingOf(config, fn), EaseOutCubic)),
           fn, n)

slideInUp(e, n, distance, config) ==
    SlideIn(e, n, "slideInUp", "translateY", Default(distance, Num(100)), config)
slideInDown(e, n, distance, config) ==
    SlideIn(e, n, "slideInDown", "translateY", -Default(distance, Num(100)), config)
slideInLeft(e, n, distance, config) ==
    SlideIn(e, n, "slideInLeft", "translateX", -Default(distance, Num(100)), config)
slideInRight(e, n, distance, config) ==
    SlideIn(e, n, "slideInRight", "translateX", Default(distance, Num(100)), config)

scaleIn(e, n, config) ==
    Assign(Write1(e, "scale", Num(0)), "scale",
           withSpringConfig(Num(1), SpringOptions(SpringOf(config, "scaleIn"))),
           "scaleIn", n)

scaleOut(e, n, config) ==
    Assign(e, "scale",
           withSpringConfig(Num(0), SpringOptions(SpringOf(config, "scaleOut"))),
           "scaleOut", n)

\* mutant: bounce without the last spring
bounceNoSettle(e, n, config) ==
    LET spring == SpringOf(config, "bounce")
    IN  Assign(e, "scale",
               withSequence(<<withSpringConfig(Dec(0, 8), spring),
                              withSpringConfig(Dec(1, 2), spring)>>),
               "bounce", n)

bounce(e, n, config) ==
    LET spring == SpringOf(config, "bounce")
    IN  Assign(e, "scale",
               withSequence(<<withSpringConfig(Dec(0, 8), spring),
                              withSpringConfig(Dec(1, 2), spring),
                              withSpringConfig(Num(1), spring)>>),
               "bounce", n)

shake(e, n) ==
    Assign(e, "translateX",
           withSequence(<<withTiming(Num(-10), [duration |-> Num(50)]),
                          withRepeat(withTiming(Num(10), [duration |-> Num(50)]), 4, TRUE),
                          withTiming(Num(0), [duration |-> Num(50)])>>),
           "shake", n)

\* mutant: the default repeatCount of pulse is 1
pulseOnce(e, n, repeatCount) ==
    Assign(e, "scale",
           withRepeat(withSequence(<<withTiming(Dec(1, 1), [duration |-> Num(500)]),
                                     withTiming(Num(1), [duration |-> Num(500)])>>),
                      Default(repeatCount, 1), FALSE),
           "pulse", n)

pulse(e, n, repeatCount) ==
    Assign(e, "scale",
           withRepeat(withSequence(<<withTiming(Dec(1, 1), [duration |-> Num(500)]),
                                     withTiming(Num(1), [duration |-> Num(500)])>>),
                      Default(repeatCount, -1), FALSE),
           "pulse", n)

spin(e, n, repeatCount) ==
    Assign(e, "rotate",
           withRepeat(withTiming(Num(360), [duration |-> Num(1000), easing |-> "Easing.linear"]),
                      Default(repeatCount, -1), FALSE),
           "spin", n)

\* the arguments of the calls that are examined
TimingConfigArgs == { {}, {[duration |-> Num(0)]}, {[duration |-> Num(150)]} }
SpringConfigArgs ==
    { {}, {[damping |-> Num(0), stiffness |-> Num(0)]},
          {[damping |-> Num(20), stiffness |-> Num(90)]} }
SlideArgs ==
    {[distance |-> {}, config |-> c] : c \in TimingConfigArgs}
        \cup {[distance |-> {Num(50)}, config |-> {}]}
RepeatCountArgs == { {}, {1}, {2} }

InitAnimation ==
    /\ InitIdle("animation")
    /\ val = AnimationValues
    /\ drv = [s \in DOMAIN AnimationValues |-> NoAnim]
    /\ comps = <<>>
    /\ gestures = NoGestures
    /\ call = [fn |-> "none", n |-> 0]

\* the nth transition is called with arguments args and leaves the engine as e
Transition(fn, args, e) ==
    /\ Apply(e)
    /\ call' = [fn |-> fn, n |-> call.n + 1, args |-> args]
    /\ tick' = [op |-> fn, started |-> e.started, written |-> e.written]
    /\ UNCHANGED <<hook, phase, props, renders, gestures>>
    /\ UNCHANGED readyVars

Calling == call.n + 1

FadeIn(config) ==
    call.n < MaxCalls /\ Transition("fadeIn", [config |-> config], fadeIn(Engine, Calling, config))
FadeOut(config) ==
    call.n < MaxCalls /\ Transition("fadeOut", [config |-> config], fadeOut(Engine, Calling, config))
SlideInUp(a) ==
    call.n < MaxCalls /\ Transition("slideInUp", a, slideInUp(Engine, Calling, a.distance, a.config))
SlideInDown(a) ==
    call.n < MaxCalls /\ Transition("slideInDown", a, slideInDown(Engine, Calling, a.distance, a.config))
SlideInLeft(a) ==
    call.n < MaxCalls /\ Transition("slideInLeft", a, slideInLeft(Engine, Calling, a.distance, a.config))
SlideInRight(a) ==
    call.n < MaxCalls /\ Transition("slideInRight", a, slideInRight(Engine, Calling, a.distance, a.config))
ScaleIn(config) ==
    call.n < MaxCalls /\ Transition("scaleIn", [config |-> config], scaleIn(Engine, Calling, config))
ScaleOut(config) ==
    call.n < MaxCalls /\ Transition("scaleOut", [config |-> config], scaleOut(Engine, Calling, config))
Bounce(config) ==
    call.n < MaxCalls /\ Transition("bounce", [config |-> config], bounce(Engine, Calling, config))
Shake ==
    call.n < MaxCalls /\ Transition("shake", <<>>, shake(Engine, Calling))
Pulse(repeatCount) ==
    call.n < MaxCalls
      /\ Transition("pulse", [repeatCount |-> repeatCount], pulse(Engine, Calling, repeatCount))
Spin(repeatCount) ==
    call.n < MaxCalls
      /\ Transition("spin", [repeatCount |-> repeatCount], spin(Engine, Calling, repeatCount))

\* the engine shows a frame of the leg of s under way
AnimationFrame(s) ==
    /\ drv[s] # NoAnim
    /\ drv[s].frames < MaxFrames
    /\ LET leg  == drv[s].legs[1]
           base == IF drv[s].frames = 0 THEN Default(leg.from, val[s]) ELSE val[s]
       IN  val' = [val EXCEPT ![s] = Mid(base, leg.to)]
    /\ drv' = [drv EXCEPT ![s].frames = drv[s].frames + 1]
    /\ tick' = [op |-> "engine", started |-> {}, written |-> {}]
    /\ UNCHANGED <<hook, phase, props, renders, comps>>
    /\ UNCHANGED readyVars
    /\ UNCHANGED otherVars

\* the engine completes the leg of s under way: the scalar is at the leg's
\* target; the next leg begins, an endless repetition begins its next round,
\* or the animation is finished
AnimationComplete(s) ==
    /\ drv[s] # NoAnim
    /\ val' = [val EXCEPT ![s] = drv[s].legs[1].to]
    /\ LET rest == Tail(drv[s].legs)
       IN  drv' = [drv EXCEPT ![s] =
                     IF rest # <<>>
                     THEN [drv[s] EXCEPT !.legs = rest, !.frames = 0]
                     ELSE IF drv[s].cycle # <<>>
                     THEN [drv[s] EXCEPT !.legs = drv[s].cycle, !.frames = 0,
                                         !.reps = IF drv[s].reps < MaxReps
                                                  THEN drv[s].reps + 1 ELSE MaxReps]
                     ELSE NoAnim]
    /\ tick' = [op |-> "engine", started |-> {}, written |-> {}]
    /\ UNCHANGED <<hook, phase, props, renders, comps>>
    /\ UNCHANGED readyVars
    /\ UNCHANGED otherVars

NextAnimation ==
    \/ \E c \in TimingConfigArgs : FadeIn(c)
    \/ \E c \in TimingConfigArgs : FadeOut(c)
    \/ \E a \in SlideArgs : SlideInUp(a)
    \/ \E a \in SlideArgs : SlideInDown(a)
    \/ \E a \in SlideArgs : SlideInLeft(a)
    \/ \E a \in SlideArgs : SlideInRight(a)
    \/ \E c \in SpringConfigArgs : ScaleIn(c)
    \/ \E c \in SpringConfigArgs : ScaleOut(c)
    \/ \E c \in SpringConfigArgs : Bounce(c)
    \/ Shake
    \/ \E r \in RepeatCountArgs : Pulse(r)
    \/ \E r \in RepeatCountArgs : Spin(r)
    \/ \E s \in DOMAIN val : AnimationFrame(s)
    \/ \E s \in DOMAIN val : AnimationComplete(s)

SpecAnimation == InitAnimation /\ [][NextAnimation]_vars

----------------------------------------------------------------------------
(* useAnimation: the configuration given to the engine *)

TimingTransitions ==
    {"fadeIn", "fadeOut", "slideInUp", "slideInDown", "slideInLeft", "slideInRight"}
SpringTransitions == {"scaleIn", "scaleOut"}

\* the animation the last call assigned
Issued == CHOOSE st \in tick.started : TRUE

\* C22: fadeIn, fadeOut and the four slideIn functions issue a timing with
\* exactly the duration of the config they are given, 0 included; scaleIn and
\* scaleOut issue a spring with exactly the config's damping and stiffness, 0
\* included; the preset's values are used only when no config is passed.
C22_ConfigPassedThrough ==
    (hook = "animation" /\ tick.op \in TimingTransitions \cup SpringTransitions) =>
        LET options == Issued.animation.config
            preset  == IF tick.op \in TimingTransitions
                       THEN AnimationUtils_getTimingConfig(tick.op)
                       ELSE AnimationUtils_getSpringConfig(tick.op)
        IN  /\ \A config \in call.args.config :
                  IF tick.op \in TimingTransitions
                  THEN options.duration = config.duration
                  ELSE /\ options.damping = config.damping
                       /\ options.stiffness = config.stiffness
            /\ call.args.config = {} =>
                  \A p \in preset :
                      IF tick.op \in TimingTransitions
                      THEN options.duration = p.duration
                      ELSE /\ options.damping = p.damping
                           /\ options.stiffness = p.stiffness

----------------------------------------------------------------------------
(* useAnimation: where the finite transitions end *)

\* the rest value stated for transition fn
RestValue(fn) ==
    IF fn \in {"fadeIn", "scaleIn", "bounce", "pulse"} THEN Num(1) ELSE Num(0)

\* the targets of the legs the engine has ahead for s
RECURSIVE Targets(_)
Targets(legs) == IF legs = <<>> THEN <<>> ELSE <<legs[1].to>> \o Targets(Tail(legs))

CalledDistance == Default(call'.args.distance, Num(100))

\* a transition that completes leaves its scalar at the rest value
CompletesAtRest ==
    \A s \in DOMAIN AnimationValues :
        (drv[s] # NoAnim /\ drv'[s] = NoAnim /\ tick'.op = "engine" /\ drv[s].fn # "spin")
            => val'[s] = RestValue(drv[s].fn)

\* what a call puts the scalar at and what it gives the engine to run
StartsFrom ==
    /\ tick'.op = "slideInUp" =>
          val'["translateY"] = CalledDistance /\ Targets(drv'["translateY"].legs) = <<Num(0)>>
    /\ tick'.op = "slideInDown" =>
          val'["translateY"] = -CalledDistance /\ Targets(drv'["translateY"].legs) = <<Num(0)>>
    /\ tick'.op = "slideInLeft" =>
          val'["translateX"] = -CalledDistance /\ Targets(drv'["translateX"].legs) = <<Num(0)>>
    /\ tick'.op = "slideInRight" =>
          val'["translateX"] = CalledDistance /\ Targets(drv'["translateX"].legs) = <<Num(0)>>
    /\ tick'.op = "scaleIn" =>
          val'["scale"] = Num(0) /\ Targets(drv'["scale"].legs) = <<Num(1)>>
    /\ tick'.op = "scaleOut" =>
          val'["scale"] = val["scale"] /\ Targets(drv'["scale"].legs) = <<Num(0)>>
    /\ tick'.op = "fadeIn" =>
          val'["opacity"] = val["opacity"] /\ Targets(drv'["opacity"].legs) = <<Num(1)>>
    /\ tick'.op = "fadeOut" =>
          val'["opacity"] = val["opacity"] /\ Targets(drv'["opacity"].legs) = <<Num(0)>>
    /\ tick'.op = "bounce" =>
          Targets(drv'["scale"].legs) = <<Dec(0, 8), Dec(1, 2), Num(1)>>
    /\ tick'.op = "shake" =>
          Targets(drv'["translateX"].legs)
              = <<Num(-10), Num(10), Num(-10), Num(10), Num(-10), Num(0)>>
    /\ (tick'.op = "pulse" /\ call'.args.repeatCount = {1}) =>
          Targets(drv'["scale"].legs) = <<Dec(1, 1), Num(1)>>
    /\ (tick'.op = "pulse" /\ call'.args.repeatCount = {2}) =>
          Targets(drv'["scale"].legs) = <<Dec(1, 1), Num(1), Dec(1, 1), Num(1)>>

EndsAtRest == hook = "animation" => (CompletesAtRest /\ StartsFrom)

\* C27: a finite transition of useAnimation that runs to completion and is
\* not superseded leaves its scalar at a fixed rest value: fadeIn opacity 1,
\* fadeOut 0; slideInUp / slideInDown translateY 0 after a jump to +distance /
\* -distance; slideInLeft / slideInRight translateX 0 after a jump to
\* -distance / +distance; scaleIn scale 1 after a jump to 0, scaleOut 0;
\* bounce scale 1 by way of 0.8 and 1.2; shake translateX 0 by way of -10 and
\* four reversing repetitions between 10 and -10; pulse(n) scale 1 for n >= 1.
C27_EndsAtRest == [][EndsAtRest]_vars

\* the second transition called was pulse(2), which has run its two rounds
C27_Witness ==
    /\ hook = "animation"
    /\ call.n = 2
    /\ call.fn = "pulse"
    /\ call.args.repeatCount = {2}
    /\ tick.op = "engine"
    /\ drv["scale"] = NoAnim
    /\ val["scale"] = Num(1)
    /\ drv["opacity"] = NoAnim /\ val["opacity"] = Num(1)
    /\ val["translateX"] = Num(0) /\ val["translateY"] = Num(0)
    /\ val["rotate"] = Num(0)

----------------------------------------------------------------------------
(* useAnimation: the repetitions without end *)

\* the transitions that assign to scalar s
Writers(s) ==
    IF s = "scale" THEN {"scaleIn", "scaleOut", "bounce", "pulse"}
    ELSE IF s = "rotate" THEN {"spin"}
    ELSE IF s = "opacity" THEN {"fadeIn", "fadeOut"}
    ELSE IF s = "translateY" THEN {"slideInUp", "slideInDown"}
    ELSE {"slideInLeft", "slideInRight", "shake"}

\* s is driven by a pulse() or spin() called without argument
DrivenWithoutEnd(d) ==
    /\ d # NoAnim
    /\ d.fn \in {"pulse", "spin"}
    /\ d.assigned.numberOfReps = -1

RunsWithoutEnd ==
    hook = "animation" =>
        /\ (tick'.op = "pulse" /\ call'.args.repeatCount = {}) =>
              DrivenWithoutEnd(drv'["scale"])
        /\ (tick'.op = "spin" /\ call'.args.repeatCount = {}) =>
              DrivenWithoutEnd(drv'["rotate"])
        /\ \A s \in DOMAIN AnimationValues :
              DrivenWithoutEnd(drv[s]) =>
                  \/ /\ DrivenWithoutEnd(drv'[s])
                     /\ drv'[s].call = drv[s].call
                  \/ tick'.op \in Writers(s)

\* C28: pulse() and spin() called without argument (repeatCount -1) never
\* complete; they stop driving their scalar only when another transition
\* writes it: scaleIn, scaleOut, bounce or pulse for scale, spin for rotate.
C28_RunsWithoutEnd == [][RunsWithoutEnd]_vars

\* pulse() has begun its third round and more, and a fadeIn called after it
\* has left it running
C28_Witness ==
    /\ hook = "animation"
    /\ call.n = 2
    /\ call.fn = "fadeIn"
    /\ DrivenWithoutEnd(drv["scale"])
    /\ drv["scale"].call = 1
    /\ drv["scale"].reps = MaxReps
    /\ drv["opacity"] = NoAnim
    /\ tick.op = "engine"

====
